---- MODULE Spec2Model ----
(***************************************************************************)
(* A model of notion2html's fetch layer:                                   *)
(*   - networking.get_network_data and _handle_response (the retry loop),  *)
(*   - networking.FetchedObject (the claim registry and its lock),         *)
(*   - notion.get_from_notion and the recursive page/database expansion.   *)
(* Each part has its own specification over the same variables: SpecNet,   *)
(* SpecReg and Spec.                                                        *)
(***************************************************************************)
EXTENDS Integers, Sequences, FiniteSets, TLC

VARIABLES
    \* ---- one call of networking.get_network_data
    method,         \* the method argument
    file_download,  \* the file_download argument
    token_set,      \* whether NOTION_TOKEN is set (read by _get_headers)
    npc,            \* position of the call
    i,              \* the loop variable of "for i in range(4, 0, -1)"
    outcome,        \* what the latest _execute_request produced
    attempts,       \* number of _execute_request calls made
    sent,           \* number of requests handed to the requests library
    hist,           \* class of every finished attempt, oldest first
    slept,          \* seconds slept by the latest finished attempt
    total_slept,    \* seconds slept by the call so far
    result,         \* what the call returned or raised
    \* ---- FetchedObject and the tasks calling record_fetched_object
    lock_holder,    \* task holding FetchedObject._lock, or NoTask
    notion_object,  \* keys of FetchedObject._notion_object
    tpc,            \* position of each task inside record_fetched_object
    targ,           \* notion_object.id of each task's argument
    tret,           \* value each task's call returned
    \* ---- one run of notion.get_from_notion
    remote,         \* what the remote service holds and answers (fixed in a run)
    fetched,        \* networking.FETCHED_OBJECTS: None, or the claimed ids
    page,           \* the NotionPage object registered for each id
    database,       \* the NotionDatabase object registered for each id
    stack,          \* call stack of the main thread and of every pool worker
    ret,            \* value or exception the latest finished call handed back
    tstate,         \* state of the main thread and of every submitted future
    completion,     \* the futures in the order they completed
    requests,       \* number of requests sent, by endpoint and target
    past_claim,     \* number of expansions that went past the claim, by id
    rejects,        \* number of claim attempts that returned False, by id
    wasted,         \* ids fetched by an attempt started after the id was claimed
    notion_result,  \* the NotionResult that get_from_notion builds
    run,            \* number of calls of get_from_notion so far
    users_from_notion, \* USERS_FROM_NOTION: the ids of the users fetched at startup
    earlier_result, \* the NotionResult of the call before this one
    \* ---- the executors of get_pages_concurrently calls
    number_of_pages, \* len(pages) of each call
    executor,        \* position of each call: idle, running, returned, raised
    max_workers,     \* max_workers of the call's ThreadPoolExecutor
    queued,          \* submitted get_page calls no worker has taken yet
    working,         \* get_page calls a worker of the executor is running
    finished         \* get_page calls whose future is done

netvars == <<method, file_download, token_set, npc, i, outcome, attempts, sent,
             hist, slept, total_slept, result>>
regvars == <<lock_holder, notion_object, tpc, targ, tret>>
runvars == <<remote, fetched, page, database, stack, ret, tstate, completion,
             requests, past_claim, rejects, wasted, notion_result, run,
             earlier_result, users_from_notion>>
poolvars == <<number_of_pages, executor, max_workers, queued, working, finished>>

-----------------------------------------------------------------------------
(* Bounds of the model. *)

\* Largest Retry-After value a rate-limited response carries.
MaxRetryAfter == 3

\* Number of tasks that call record_fetched_object concurrently.
NTasks == 3

\* Number of distinct object ids the tasks may pass.
NIds == 2

\* Deepest call stack a thread of a run may build.
MaxDepth == 8

\* Largest number of remote requests that fail in one run.
MaxFailures == 1

\* Largest number of items a database query returns.
MaxItems == 3

\* Number of calls of get_from_notion a behaviour makes.
MaxRuns == 2
\* Numbers of pages handed to get_pages_concurrently: below and above the
\* number of workers an executor may have.
FewPages == 2
ManyPages == 51
\* Depth of recursive calls after which the interpreter raises RecursionError.
RecursionLimit == 3

-----------------------------------------------------------------------------
(* networking.get_network_data *)

\* range(4, 0, -1): the first value of the loop variable, i.e. the budget.
Retries_3 == 4 - 1
Retries == 4

\* time.sleep(10) after requests.exceptions.Timeout.
TimeoutSleep == 10

\* time.sleep(5) after any other exception.
ExceptionSleep == 5

\* time.sleep(10) after a non-success status.
BadStatusSleep == 10

\* time.sleep(retry_after + 2) after a 429.
RateLimitSleep(retry_after) == retry_after + 2

Methods == {"get", "post", "put"}

Statuses == {200, 403, 404, 429, 500}

\* What response.json() meets in the body: a JSON object without an error
\* code, a JSON object whose code is object_not_found or restricted_resource,
\* a JSON value that is no object (a list), JSON null, or text that does not
\* parse.
Bodies == {"object", "object_not_found", "restricted_resource", "array", "null",
           "invalid"}

\* The Retry-After header of a response: an integer, absent, or not a number.
NoHeader == [kind |-> "missing", value |-> 0]
RetryAfters == {[kind |-> "int", value |-> d] : d \in 0..MaxRetryAfter}
                 \cup {NoHeader, [kind |-> "garbage", value |-> 0]}

NoOutcome == [kind |-> "none", status |-> 0, body |-> "null", retry_after |-> NoHeader]

\* Everything _execute_request can produce for a valid method: a Timeout,
\* another requests exception, or a response.
Outcomes ==
    {[kind |-> k, status |-> 0, body |-> "null", retry_after |-> NoHeader] :
        k \in {"timeout", "connection_error"}}
    \cup {[kind |-> "response", status |-> s, body |-> b, retry_after |-> NoHeader] :
            s \in Statuses \ {429}, b \in Bodies}
    \cup {[kind |-> "response", status |-> 429, body |-> b, retry_after |-> h] :
            b \in Bodies, h \in RetryAfters}

\* response.ok
Ok(response) == response.status < 400

\* data.get('code', '') of _handle_response; "AttributeError" when data has no
\* get method (data is None for a download, or the body is not an object).
DataCode(response, download) ==
    IF download \/ response.body = "array" THEN "AttributeError"
    ELSE IF response.body \in {"object_not_found", "restricted_resource"}
         THEN response.body
         ELSE ""

\* "if not file_download: data = response.json()": whether the payload is
\* parsed as JSON.
ParsesJson_Always(download) == TRUE
ParsesJson(download) == ~download

Returned(data) == [kind |-> "return", exc |-> "", data |-> data, slept |-> 0]
Retry(seconds) == [kind |-> "retry", exc |-> "", data |-> "None", slept |-> seconds]
Raised(exc)    == [kind |-> "raise", exc |-> exc, data |-> "None", slept |-> 0]

\* _handle_response(response, url, file_download): (data, should_retry), or
\* the exception it raises, with the seconds it slept.
HandleResponse_DropsData(response, download) ==
    IF Ok(response) THEN Returned("None") ELSE Retry(BadStatusSleep)
HandleResponse(response, download) ==
    IF ParsesJson(download) /\ response.body \in {"null", "invalid"}
    THEN Retry(0)
    ELSE IF response.status = 429
    THEN CASE response.retry_after.kind = "int" ->
                  Retry(RateLimitSleep(response.retry_after.value))
           [] response.retry_after.kind = "missing" -> Raised("KeyError")
           [] OTHER -> Raised("ValueError")
    ELSE IF response.status = 404 /\ DataCode(response, download) = "AttributeError"
    THEN Raised("AttributeError")
    ELSE IF response.status = 404 /\ DataCode(response, download) = "object_not_found"
    THEN Raised("Error404NotFound")
    ELSE IF response.status = 403 /\ DataCode(response, download) = "AttributeError"
    THEN Raised("AttributeError")
    ELSE IF response.status = 403 /\ DataCode(response, download) = "restricted_resource"
    THEN Raised("Error403RestrictedResource")
    ELSE IF ~Ok(response)
    THEN Retry(BadStatusSleep)
    ELSE IF download THEN Returned("response") ELSE Returned("data")

\* The exceptions get_network_data re-raises; every other one is logged,
\* followed by time.sleep(5) and the next attempt.
Reraised_NotValueError == {"Error404NotFound", "Error403RestrictedResource"}
Reraised == {"Error404NotFound", "Error403RestrictedResource", "ValueError"}

NoResult == [kind |-> "none", value |-> "None"]

Ended == {"returned", "raised"}

\* The class of what an attempt received, read off the outcome itself (the
\* classification of the retry policy): a timeout, another transport
\* exception, a rate-limited, not-found or forbidden response, a malformed
\* payload, another non-success status, or a success.
OutcomeClass(o, download) ==
    CASE o.kind = "timeout" -> "timeout"
      [] o.kind = "connection_error" -> "exception"
      [] o.status = 429 /\ o.retry_after.kind = "int" -> "rate_limited"
      [] o.status = 429 -> "rate_limited_bad_header"
      [] o.status = 404 /\ o.body = "object_not_found" -> "not_found"
      [] o.status = 403 /\ o.body = "restricted_resource" -> "forbidden"
      [] ~download /\ o.body \in {"null", "invalid"} -> "malformed"
      [] ~Ok(o) -> "bad_status"
      [] OTHER -> "success"

NetInit ==
    /\ method \in Methods
    /\ file_download \in BOOLEAN
    /\ token_set \in BOOLEAN
    /\ npc = "headers"
    /\ i = Retries
    /\ outcome = NoOutcome
    /\ attempts = 0
    /\ sent = 0
    /\ hist = <<>>
    /\ slept = 0
    /\ total_slept = 0
    /\ result = NoResult

\* headers = _get_headers(file_download)
GetHeaders ==
    /\ npc = "headers"
    /\ IF token_set
       THEN npc' = "request" /\ result' = result
       ELSE npc' = "raised" /\ result' = [kind |-> "raise", value |-> "NoToken"]
    /\ UNCHANGED <<method, file_download, token_set, i, outcome, attempts, sent,
                   hist, slept, total_slept>>
    /\ UNCHANGED <<regvars, runvars, poolvars>>

LoopEnd_RateLimitFree(class, seconds) ==
    /\ hist' = Append(hist, class)
    /\ slept' = seconds
    /\ total_slept' = total_slept + seconds
    /\ IF i = 1 /\ class # "rate_limited"
       THEN /\ npc' = "raised"
            /\ result' = [kind |-> "raise", value |-> "NoMoreRetries"]
            /\ i' = i
       ELSE /\ npc' = "request"
            /\ result' = result
            /\ i' = IF class = "rate_limited" THEN i ELSE i - 1

\* The end of one loop iteration that did not return or raise: "if i == 1:
\* raise RuntimeError('No more retries left!')", else the next value of i.
LoopEnd(class, seconds) ==
    /\ hist' = Append(hist, class)
    /\ slept' = seconds
    /\ total_slept' = total_slept + seconds
    /\ IF i = 1
       THEN /\ npc' = "raised"
            /\ result' = [kind |-> "raise", value |-> "NoMoreRetries"]
            /\ i' = i
       ELSE /\ npc' = "request"
            /\ result' = result
            /\ i' = i - 1

\* response = _execute_request(method, url, headers, payload), with the
\* handlers of ValueError, Timeout and Exception of get_network_data.
ExecuteRequest ==
    /\ npc = "request"
    /\ attempts' = attempts + 1
    /\ IF method \notin {"get", "post"}
       THEN \* raise ValueError("Invalid method!"), caught by the caller
            /\ IF "ValueError" \in Reraised
               THEN /\ npc' = "raised"
                    /\ result' = [kind |-> "raise", value |-> "ValueError"]
                    /\ hist' = Append(hist, "invalid_method")
                    /\ UNCHANGED <<i, slept, total_slept>>
               ELSE LoopEnd("invalid_method", ExceptionSleep)
            /\ UNCHANGED <<outcome, sent>>
       ELSE /\ sent' = sent + 1
            /\ \E o \in Outcomes :
                 /\ outcome' = o
                 /\ CASE o.kind = "timeout" ->
                             LoopEnd(OutcomeClass(o, file_download), TimeoutSleep)
                      [] o.kind = "connection_error" ->
                             LoopEnd(OutcomeClass(o, file_download), ExceptionSleep)
                      [] OTHER ->
                             /\ npc' = "handle"
                             /\ UNCHANGED <<i, hist, slept, total_slept, result>>
    /\ UNCHANGED <<method, file_download, token_set>>
    /\ UNCHANGED <<regvars, runvars, poolvars>>

\* data, should_retry = _handle_response(response, url, file_download), with
\* the return and the handlers of get_network_data.
HandleStep ==
    /\ npc = "handle"
    /\ LET handled == HandleResponse(outcome, file_download)
           class == OutcomeClass(outcome, file_download)
       IN CASE handled.kind = "return" ->
                   /\ npc' = "returned"
                   /\ result' = [kind |-> "return", value |-> handled.data]
                   /\ hist' = Append(hist, class)
                   /\ slept' = 0
                   /\ UNCHANGED <<i, total_slept>>
            [] handled.kind = "raise" /\ handled.exc \in Reraised ->
                   /\ npc' = "raised"
                   /\ result' = [kind |-> "raise", value |-> handled.exc]
                   /\ hist' = Append(hist, class)
                   /\ slept' = 0
                   /\ UNCHANGED <<i, total_slept>>
            [] handled.kind = "raise" -> LoopEnd(class, ExceptionSleep)
            [] OTHER -> LoopEnd(class, handled.slept)
    /\ UNCHANGED <<method, file_download, token_set, outcome, attempts, sent>>
    /\ UNCHANGED <<regvars, runvars, poolvars>>

NetNext ==
    \/ GetHeaders
    \/ ExecuteRequest
    \/ HandleStep

-----------------------------------------------------------------------------
(* networking.FetchedObject *)

Tasks == 1..NTasks
ObjectIds == 1..NIds
NoTask == 0

RegInit ==
    /\ lock_holder = NoTask
    /\ notion_object = {}
    /\ tpc = [t \in Tasks |-> "call"]
    /\ targ \in [Tasks -> ObjectIds]
    /\ tret = [t \in Tasks |-> "pending"]

\* "with self._lock:" may be entered when no task holds the lock.
LockFree_Unguarded == TRUE
LockFree == lock_holder = NoTask

\* with self._lock: (acquire)
Acquire(t) ==
    /\ tpc[t] = "call"
    /\ LockFree
    /\ lock_holder' = t
    /\ tpc' = [tpc EXCEPT ![t] = "test"]
    /\ UNCHANGED <<notion_object, targ, tret>>
    /\ UNCHANGED <<netvars, runvars, poolvars>>

\* if notion_object.id in self._notion_object: return False
TestMember(t) ==
    /\ tpc[t] = "test"
    /\ IF targ[t] \in notion_object
       THEN /\ tret' = [tret EXCEPT ![t] = "False"]
            /\ tpc' = [tpc EXCEPT ![t] = "release"]
       ELSE /\ tret' = tret
            /\ tpc' = [tpc EXCEPT ![t] = "set"]
    /\ UNCHANGED <<lock_holder, notion_object, targ>>
    /\ UNCHANGED <<netvars, runvars, poolvars>>

\* else: self._notion_object[notion_object.id] = notion_object; return True
SetMember(t) ==
    /\ tpc[t] = "set"
    /\ notion_object' = notion_object \cup {targ[t]}
    /\ tret' = [tret EXCEPT ![t] = "True"]
    /\ tpc' = [tpc EXCEPT ![t] = "release"]
    /\ UNCHANGED <<lock_holder, targ>>
    /\ UNCHANGED <<netvars, runvars, poolvars>>

\* leaving the with block (release)
Release(t) ==
    /\ tpc[t] = "release"
    /\ lock_holder' = (IF lock_holder = t THEN NoTask ELSE lock_holder)
    /\ tpc' = [tpc EXCEPT ![t] = "done"]
    /\ UNCHANGED <<notion_object, targ, tret>>
    /\ UNCHANGED <<netvars, runvars, poolvars>>

RegNext ==
    \E t \in Tasks :
        \/ Acquire(t)
        \/ TestMember(t)
        \/ SetMember(t)
        \/ Release(t)

-----------------------------------------------------------------------------
(* notion.get_pages_concurrently: the executor of one call and its workers *)

\* Two calls of get_pages_concurrently that overlap: the one for the items of
\* a collection, and the one for a collection that one of these items embeds
\* or mentions, made by the worker that expands the item.
Pools == {"outer", "inner"}

\* "maximum_workers = 50"
MaximumWorkers == 50

\* An executor with one worker for every page.
MaxWorkersFor_Uncapped(pages) == pages

\* "if number_of_pages < maximum_workers: maximum_workers = number_of_pages"
MaxWorkersFor(pages) == IF pages < MaximumWorkers THEN pages ELSE MaximumWorkers

PoolInit ==
    /\ number_of_pages \in [Pools -> {0, FewPages, ManyPages}]
    /\ number_of_pages["outer"] > 0
    /\ number_of_pages["inner"] < ManyPages
    /\ executor = [p \in Pools |-> "idle"]
    /\ max_workers = [p \in Pools |-> 0]
    /\ queued = [p \in Pools |-> 0]
    /\ working = [p \in Pools |-> 0]
    /\ finished = [p \in Pools |-> 0]

\* The call for the inner collection is made by a worker of the outer one.
InsideItem(p) == p = "inner" => working["outer"] > 0

\* ThreadPoolExecutor(max_workers=maximum_workers), which raises ValueError
\* when max_workers is 0, and executor.submit(get_page, page) for every page.
CreateExecutor(p) ==
    /\ executor[p] = "idle"
    /\ InsideItem(p)
    /\ IF MaxWorkersFor(number_of_pages[p]) = 0
       THEN /\ executor' = [executor EXCEPT ![p] = "raised"]
            /\ UNCHANGED <<max_workers, queued>>
       ELSE /\ executor' = [executor EXCEPT ![p] = "running"]
            /\ max_workers' = [max_workers EXCEPT ![p] = MaxWorkersFor(number_of_pages[p])]
            /\ queued' = [queued EXCEPT ![p] = number_of_pages[p]]
    /\ UNCHANGED <<number_of_pages, working, finished>>
    /\ UNCHANGED <<netvars, regvars, runvars>>

\* A worker of the executor takes a submitted call: the executor has at most
\* max_workers threads, each running one call at a time.
StartPage(p) ==
    /\ executor[p] = "running"
    /\ queued[p] > 0
    /\ working[p] < max_workers[p]
    /\ queued' = [queued EXCEPT ![p] = @ - 1]
    /\ working' = [working EXCEPT ![p] = @ + 1]
    /\ UNCHANGED <<number_of_pages, executor, max_workers, finished>>
    /\ UNCHANGED <<netvars, regvars, runvars>>

\* A get_page call ends, with a page, None or an exception; the worker that
\* made the inner call ends only after that call has ended.
FinishPage_InPool(p) ==
    /\ executor[p] = "running"
    /\ working[p] > 0
    /\ (p = "outer" /\ executor["inner"] = "running") => working[p] > 1
    /\ working' = [working EXCEPT ![p] = @ - 1]
    /\ finished' = [finished EXCEPT ![p] = @ + 1]
    /\ UNCHANGED <<number_of_pages, executor, max_workers, queued>>
    /\ UNCHANGED <<netvars, regvars, runvars>>

\* The end of the "with" block: every future is done.
ShutdownExecutor(p) ==
    /\ executor[p] = "running"
    /\ finished[p] = number_of_pages[p]
    /\ executor' = [executor EXCEPT ![p] = "returned"]
    /\ UNCHANGED <<number_of_pages, max_workers, queued, working, finished>>
    /\ UNCHANGED <<netvars, regvars, runvars>>

PoolNext ==
    \E p \in Pools :
        \/ CreateExecutor(p)
        \/ StartPage(p)
        \/ FinishPage_InPool(p)
        \/ ShutdownExecutor(p)

-----------------------------------------------------------------------------
(* The remote service: pages, their blocks, databases and their items *)

Ids == {"a", "b", "c", "d"}

\* Ids of blocks that are neither a nested page nor an embedded database.
BlockIds == {"t1", "p1", "f1", "r1", "h1"}

ParentIds == Ids \cup BlockIds

Endpoints == {"page", "blocks", "db_info", "db_query"}

Exceptions == {"Error404NotFound", "Error403RestrictedResource", "RuntimeError"}

\* The target of the user-directory request, and the result pages of a
\* directory of one user.
AllUsers == "users"
UserDirectory == <<<<"user1">>>>

\* Source URLs of Notion-hosted files.
Urls == {"u1", "u2"}

\* The exceptions that get_network_data(url, "get", file_download=True) ends
\* in when it does not return: RuntimeError("No more retries left!"), and the
\* ValueError of int(response.headers['Retry-After']), which is re-raised.
DownloadFailures == {"RuntimeError", "ValueError"}

PageMention(id) == [kind |-> "page", id |-> id]
DatabaseMention(id) == [kind |-> "database", id |-> id]

\* Blocks as the block-children endpoint lists them.
ChildPage(id) ==
    [type |-> "child_page", id |-> id, has_children |-> TRUE, rich_text |-> <<>>,
     url |-> ""]
ChildDatabase(id) ==
    [type |-> "child_database", id |-> id, has_children |-> FALSE, rich_text |-> <<>>,
     url |-> ""]
Paragraph(texts) ==
    [type |-> "paragraph", id |-> "p1", has_children |-> FALSE, rich_text |-> texts,
     url |-> ""]
Toggle(id) ==
    [type |-> "toggle", id |-> id, has_children |-> TRUE, rich_text |-> <<>>,
     url |-> ""]
\* A heading; texts are its rich-text objects.
Heading(texts) ==
    [type |-> "heading_1", id |-> "h1", has_children |-> FALSE, rich_text |-> texts,
     url |-> ""]
\* A table: its rows are its children.
Table(id) ==
    [type |-> "table", id |-> id, has_children |-> TRUE, rich_text |-> <<>>,
     url |-> ""]
\* A table row; texts are the rich-text objects of its cells.
TableRow(texts) ==
    [type |-> "table_row", id |-> "r1", has_children |-> FALSE, rich_text |-> texts,
     url |-> ""]
\* A block of type file whose file object is of type 'file' (Notion-hosted).
FileBlock(url) ==
    [type |-> "file", id |-> "f1", has_children |-> FALSE, rich_text |-> <<>>,
     url |-> url]

\* children: the results of the first answer of the block-children endpoint
\* for a parent; more: the results of the answers that follow when the first
\* one has has_more set.
NoChildren == [p \in ParentIds |-> <<>>]
NoItems == [d \in Ids |-> <<>>]

\* A page that mentions itself and nests page b; b mentions a (a cycle) and c.
GraphPageCycle ==
    [root |-> "a", pages |-> {"a", "b", "c"}, dbs |-> {},
     children |-> [NoChildren EXCEPT
        !["a"] = <<Paragraph(<<PageMention("a")>>), ChildPage("b")>>,
        !["b"] = <<Paragraph(<<PageMention("a"), PageMention("c")>>)>>],
     more |-> NoChildren,
     users |-> UserDirectory,
     items |-> NoItems]

\* A root database of three items on two result pages; item a mentions its
\* sibling b.
GraphDatabaseSiblings ==
    [root |-> "d", pages |-> {"a", "b", "c"}, dbs |-> {"d"},
     children |-> [NoChildren EXCEPT
        !["a"] = <<Paragraph(<<PageMention("b")>>)>>],
     more |-> NoChildren,
     users |-> UserDirectory,
     items |-> [NoItems EXCEPT !["d"] = <<<<"a", "b">>, <<"c">>>>]]

\* A page that embeds database d, mentions it and mentions page b; the items
\* of d are b and c; b mentions a and c embeds d again.
GraphEmbeddedDatabase ==
    [root |-> "a", pages |-> {"a", "b", "c"}, dbs |-> {"d"},
     children |-> [NoChildren EXCEPT
        !["a"] = <<ChildDatabase("d"),
                   Paragraph(<<DatabaseMention("d"), PageMention("b")>>)>>,
        !["b"] = <<Paragraph(<<PageMention("a")>>)>>,
        !["c"] = <<ChildDatabase("d")>>],
     more |-> NoChildren,
     users |-> UserDirectory,
     items |-> [NoItems EXCEPT !["d"] = <<<<"b", "c">>>>]]

\* A page whose toggle block holds a paragraph mentioning b, followed by a
\* paragraph mentioning b twice and database d, whose only item is c.
GraphNestedBlocks ==
    [root |-> "a", pages |-> {"a", "b", "c"}, dbs |-> {"d"},
     children |-> [NoChildren EXCEPT
        !["a"] = <<Toggle("t1"),
                   Paragraph(<<PageMention("b"), PageMention("b"),
                               DatabaseMention("d")>>)>>,
        !["t1"] = <<Paragraph(<<PageMention("b")>>)>>,
        !["c"] = <<Paragraph(<<PageMention("c")>>)>>],
     more |-> NoChildren,
     users |-> UserDirectory,
     items |-> [NoItems EXCEPT !["d"] = <<<<"c">>>>]]

\* A page that mentions a database whose query returns no item.
GraphEmptyDatabase ==
    [root |-> "a", pages |-> {"a"}, dbs |-> {"d"},
     children |-> [NoChildren EXCEPT
        !["a"] = <<Paragraph(<<DatabaseMention("d")>>)>>],
     more |-> NoChildren,
     users |-> UserDirectory,
     items |-> [NoItems EXCEPT !["d"] = <<<<>>>>]]

\* A page with three file blocks, two of them for the same URL, and a nested
\* page between them.
GraphAttachments ==
    [root |-> "a", pages |-> {"a", "b"}, dbs |-> {},
     children |-> [NoChildren EXCEPT
        !["a"] = <<FileBlock("u1"), ChildPage("b"), FileBlock("u1"),
                   FileBlock("u2")>>],
     more |-> NoChildren,
     users |-> UserDirectory,
     items |-> NoItems]

\* A root id that is neither a page nor a database.
GraphNoRoot ==
    [root |-> "c", pages |-> {"a"}, dbs |-> {"d"},
     children |-> NoChildren, more |-> NoChildren,
     users |-> UserDirectory,
     items |-> [NoItems EXCEPT !["d"] = <<<<>>>>]]

\* A page with a table whose only row mentions page b.
GraphTable ==
    [root |-> "a", pages |-> {"a", "b"}, dbs |-> {},
     children |-> [NoChildren EXCEPT
        !["a"] = <<Table("t1")>>,
        !["t1"] = <<TableRow(<<PageMention("b")>>)>>],
     more |-> NoChildren,
     users |-> UserDirectory,
     items |-> NoItems]

\* A page whose heading mentions page b.
GraphHeadingMention ==
    [root |-> "a", pages |-> {"a", "b"}, dbs |-> {},
     children |-> [NoChildren EXCEPT !["a"] = <<Heading(<<PageMention("b")>>)>>],
     more |-> NoChildren,
     users |-> UserDirectory,
     items |-> NoItems]

\* A page whose block-children listing spans two result pages: the first
\* holds a paragraph and has_more, the second a paragraph mentioning b.
GraphPagedBlocks ==
    [root |-> "a", pages |-> {"a", "b"}, dbs |-> {},
     children |-> [NoChildren EXCEPT !["a"] = <<Paragraph(<<>>)>>],
     more |-> [NoChildren EXCEPT !["a"] = <<Paragraph(<<PageMention("b")>>)>>],
     users |-> UserDirectory,
     items |-> NoItems]

\* A page without blocks in a workspace whose user directory spans two result
\* pages.
GraphPagedUsers ==
    [root |-> "a", pages |-> {"a"}, dbs |-> {},
     children |-> NoChildren,
     more |-> NoChildren,
     users |-> <<<<"user1">>, <<"user2">>>>,
     items |-> NoItems]

Graphs == {GraphPageCycle, GraphDatabaseSiblings, GraphEmbeddedDatabase,
           GraphNestedBlocks, GraphEmptyDatabase, GraphNoRoot, GraphAttachments,
           GraphPagedBlocks, GraphTable, GraphHeadingMention, GraphPagedUsers}

\* The URLs of the file blocks of a graph.
GraphUrls(g) ==
    {u \in Urls : \E p \in ParentIds : \E j \in 1..Len(g.children[p]) :
                    g.children[p][j].url = u}

\* The requests of a run that may fail for good (after the retries of
\* get_network_data), each with the exception the caller then sees.
FailureChoices(g) ==
    {[endpoint |-> e, id |-> x, exc |-> exc] :
        e \in {"page", "blocks"}, x \in g.pages, exc \in Exceptions}
    \cup {[endpoint |-> e, id |-> x, exc |-> exc] :
            e \in {"db_info", "db_query"}, x \in g.dbs, exc \in Exceptions}
    \cup {[endpoint |-> "download", id |-> u, exc |-> exc] :
            u \in GraphUrls(g), exc \in DownloadFailures}
    \cup {[endpoint |-> "users", id |-> AllUsers, exc |-> exc] : exc \in Exceptions}

\* A set of failures names a request at most once.
Consistent(F) ==
    \A f1, f2 \in F : (f1.endpoint = f2.endpoint /\ f1.id = f2.id) => f1 = f2

RECURSIVE FailureSetsUpTo(_, _)
FailureSetsUpTo(g, n) ==
    IF n = 0 THEN {{}}
    ELSE LET smaller == FailureSetsUpTo(g, n - 1)
         IN smaller \cup {F \in {S \cup {f} : S \in smaller, f \in FailureChoices(g)} :
                              Consistent(F)}

FailureSets(g) == FailureSetsUpTo(g, MaxFailures)

WithFailures(g) ==
    {[root |-> g.root, pages |-> g.pages, dbs |-> g.dbs, children |-> g.children,
      more |-> g.more, items |-> g.items, users |-> g.users, fail |-> F] : F \in FailureSets(g)}

Remotes == UNION {WithFailures(g) : g \in Graphs}

\* What one request, retries included, ends in: "ok" or the exception raised.
\* An id the endpoint does not know answers 404 object_not_found.
RequestOutcome(endpoint, id) ==
    IF \/ endpoint = "page" /\ id \notin remote.pages
       \/ endpoint \in {"db_info", "db_query"} /\ id \notin remote.dbs
    THEN "Error404NotFound"
    ELSE IF \E f \in remote.fail : f.endpoint = endpoint /\ f.id = id
         THEN (CHOOSE f \in remote.fail : f.endpoint = endpoint /\ f.id = id).exc
         ELSE "ok"

RequestKeys ==
    (Endpoints \X ParentIds) \cup ({"download"} \X Urls) \cup {<<"users", AllUsers>>}

\* requests after one more request to each of the given targets of an endpoint.
Sent(endpoint, targets) ==
    [k \in RequestKeys |->
        IF k[1] = endpoint /\ k[2] \in targets THEN requests[k] + 1 ELSE requests[k]]

-----------------------------------------------------------------------------
(* Pure parts of networking.py, notion.py and utils.py *)

\* The answer to GET /blocks/{id}/children: the first result page, with
\* has_more set when the listing goes on.
BlockChildren(parent_id) ==
    [results |-> remote.children[parent_id],
     has_more |-> remote.more[parent_id] # <<>>]

\* A walk that goes into every block that has children.
FetchesChildren_OfAnyBlock(block) == block.has_children

\* (block.get("has_children")) and (block.get("type") != "child_page")
FetchesChildren(block) == block.has_children /\ block.type # "child_page"

RECURSIVE FetchAllBlocks(_), FetchChildren(_, _)

\* fetch_all_blocks(parent_id): the listed blocks in order, each followed by
\* the blocks fetched for it when it has children and is no child_page; exc
\* is the exception of the first request that fails, and visited the parents
\* a request was sent for.
FetchAllBlocks(parent_id) ==
    IF RequestOutcome("blocks", parent_id) # "ok"
    THEN [exc |-> RequestOutcome("blocks", parent_id), blocks |-> <<>>,
          visited |-> {parent_id}]
    ELSE FetchChildren(BlockChildren(parent_id).results,
                       [exc |-> "ok", blocks |-> <<>>, visited |-> {parent_id}])

\* The loop "for block in data.get('results', [])" of fetch_all_blocks.
FetchChildren(results, sofar) ==
    IF results = <<>> \/ sofar.exc # "ok"
    THEN sofar
    ELSE LET block == Head(results)
             added == [sofar EXCEPT !.blocks = Append(@, block)]
         IN IF FetchesChildren(block)
            THEN LET sub == FetchAllBlocks(block.id)
                 IN FetchChildren(Tail(results),
                        [exc |-> sub.exc,
                         blocks |-> added.blocks \o sub.blocks,
                         visited |-> added.visited \cup sub.visited])
            ELSE FetchChildren(Tail(results), added)

RECURSIVE Concat(_)

\* The concatenation of a sequence of sequences.
Concat(seqs) == IF seqs = <<>> THEN <<>> ELSE Head(seqs) \o Concat(Tail(seqs))

\* The start_cursor of a query sent without a payload.
NoCursor == 0

\* A query answer that never announces a further result page.
QueryResponse_NoMore(database_id, start_cursor) ==
    LET result_pages == remote.items[database_id]
        k == IF start_cursor = NoCursor THEN 1 ELSE start_cursor
    IN [results |-> IF k \in 1..Len(result_pages) THEN result_pages[k] ELSE <<>>,
        has_more |-> FALSE, next_cursor |-> NoCursor]

\* The answer to POST /databases/{id}/query: the result page the cursor names
\* (the first one without a cursor), with has_more and next_cursor; no
\* results for an id that has no items.
QueryResponse(database_id, start_cursor) ==
    LET result_pages == remote.items[database_id]
        k == IF start_cursor = NoCursor THEN 1 ELSE start_cursor
    IN [results |-> IF k \in 1..Len(result_pages) THEN result_pages[k] ELSE <<>>,
        has_more |-> k < Len(result_pages),
        next_cursor |-> IF k < Len(result_pages) THEN k + 1 ELSE NoCursor]

\* _execute_request: the payload that reaches the server. requests.post gets
\* json=payload; requests.get is called with url, headers and timeout only.
SentPayload(http_method, payload) ==
    IF http_method = "post" THEN payload ELSE NoCursor

RECURSIVE FetchPagesInfoFrom(_, _)

\* fetch_pages_info_from_database(database_id, start_cursor) when every
\* request is answered: the results of this result page, followed, when
\* has_more is set, by those of the call for next_cursor; round_trips counts
\* the calls of get_network_data.
FetchPagesInfoFrom(database_id, start_cursor) ==
    LET returned_data == QueryResponse(database_id, SentPayload("post", start_cursor))
    IN IF ~returned_data.has_more
       THEN [results |-> returned_data.results, round_trips |-> 1]
       ELSE LET new_results ==
                    FetchPagesInfoFrom(database_id, returned_data.next_cursor)
            IN [results |-> returned_data.results \o new_results.results,
                round_trips |-> 1 + new_results.round_trips]

\* The answer to GET /users: the result page the cursor names (the first one
\* without a cursor), with has_more and next_cursor.
UsersResponse(start_cursor) ==
    LET result_pages == remote.users
        k == IF start_cursor = NoCursor THEN 1 ELSE start_cursor
    IN [results |-> result_pages[k],
        has_more |-> k < Len(result_pages),
        next_cursor |-> IF k < Len(result_pages) THEN k + 1 ELSE NoCursor]

RECURSIVE FetchAllUsersFrom(_, _)

\* fetch_all_users(start_cursor) at the given call depth when every request
\* is answered: as fetch_pages_info_from_database, with method "get"; a call
\* deeper than the interpreter's recursion limit raises RecursionError.
FetchAllUsersFrom(start_cursor, depth) ==
    IF depth > RecursionLimit
    THEN [exc |-> "RecursionError", results |-> <<>>, round_trips |-> 0]
    ELSE LET returned_data == UsersResponse(SentPayload("get", start_cursor))
         IN IF ~returned_data.has_more
            THEN [exc |-> "ok", results |-> returned_data.results, round_trips |-> 1]
            ELSE LET new_results ==
                         FetchAllUsersFrom(returned_data.next_cursor, depth + 1)
                 IN [exc |-> new_results.exc,
                     results |-> returned_data.results \o new_results.results,
                     round_trips |-> 1 + new_results.round_trips]

\* fetch_all_users().
FetchAllUsers == FetchAllUsersFrom(NoCursor, 1)

\* fetch_pages_info_from_database(database_id).
FetchPagesInfo(database_id) == FetchPagesInfoFrom(database_id, NoCursor).results

\* The ids of the mentions of one kind among rich-text objects.
MentionIds(texts, kind) ==
    LET hits == SelectSeq(texts, LAMBDA text : text.kind = kind)
    IN [j \in 1..Len(hits) |-> hits[j].id]

RECURSIVE SubPageIds(_), SubDatabaseIds(_)

\* sub_page_ids of get_subpages_or_subdatabases: the id of every child_page
\* block and of every page mention in a paragraph or table_row block.
SubPageIds(blocks) ==
    IF blocks = <<>> THEN <<>>
    ELSE LET block == Head(blocks)
         IN (IF block.type = "child_page" THEN <<block.id>>
             ELSE IF block.type \in {"table_row", "paragraph"}
                  THEN MentionIds(block.rich_text, "page")
                  ELSE <<>>)
            \o SubPageIds(Tail(blocks))

\* sub_database_ids of get_subpages_or_subdatabases.
SubDatabaseIds(blocks) ==
    IF blocks = <<>> THEN <<>>
    ELSE LET block == Head(blocks)
         IN (IF block.type \in {"table_row", "paragraph"}
             THEN MentionIds(block.rich_text, "database")
             ELSE <<>>)
            \o SubDatabaseIds(Tail(blocks))

\* The entries of a list.
Range(seq) == {seq[j] : j \in 1..Len(seq)}

\* The positions of a list that hold the first occurrence of their entry.
FirstOccurrences(ids) ==
    {j \in 1..Len(ids) : \A k \in 1..(j - 1) : ids[k] # ids[j]}

\* list({x.id: x for x in pages}.values()): one entry per id, at the place of
\* the id's first occurrence.
Deduplicate(ids) ==
    [n \in 1..Cardinality(FirstOccurrences(ids)) |->
        ids[CHOOSE j \in FirstOccurrences(ids) :
                Cardinality({k \in FirstOccurrences(ids) : k <= j}) = n]]

RECURSIVE FlattenTree(_, _)

\* utils.flatten_notion_page_tree(page_list): every page followed by the
\* flattened tree of its subpages, deduplicated. The subpage lists form a
\* forest no deeper than the number of ids, which is what depth counts down.
FlattenTree(page_list, depth) ==
    IF page_list = <<>> \/ depth = 0 THEN <<>>
    ELSE CHOOSE deduplicated_pages \in
            {Deduplicate(flat_list) : flat_list \in
                {<<Head(page_list)>>
                 \o FlattenTree(page[Head(page_list)].subpages, depth - 1)
                 \o FlattenTree(Tail(page_list), depth)}} : TRUE

FlattenNotionPageTree(page_list) == FlattenTree(page_list, Cardinality(Ids) + 1)

-----------------------------------------------------------------------------
(* notion.get_from_notion: threads, frames and objects *)

\* The main thread, and one future per item of a database query: the future
\* of item k of database d is <<d, k>>.
Main == <<"main", 0>>
Futures == Ids \X (1..MaxItems)
Threads == {Main} \cup Futures

Frame(fn, id, parent, pc) ==
    [fn |-> fn, id |-> id, parent |-> parent, pc |-> pc, idx |-> 1, acc |-> <<>>]

NoRet == [kind |-> "none", val |-> ""]
Value(v) == [kind |-> "value", val |-> v]
Exc(e) == [kind |-> "exc", val |-> e]

\* NotionPage(page_id) and NotionDatabase(database_id) as constructed.
NewPage ==
    [state |-> "Claimed", blocks |-> <<>>, parent |-> "", subpages |-> <<>>,
     databases |-> <<>>, errors |-> <<>>, attachments |-> {},
     tables_and_rows |-> [table_id \in {} |-> <<>>]]
NoPage == [NewPage EXCEPT !.state = "Unclaimed"]
NewDatabase == [state |-> "Claimed", top_level_pages |-> <<>>, all_pages |-> <<>>]
NoDatabase == [NewDatabase EXCEPT !.state = "Unclaimed"]

NoRegistry == [exists |-> FALSE, ids |-> {}]

\* NotionResult() as constructed: _all_pages, _all_databases and _errors, by
\* id.
NewResult == [pages |-> {}, databases |-> {}, errors |-> {}]
NoResultYet == [pages |-> {}, databases |-> {}, errors |-> {}, returned |-> FALSE]

RunInit ==
    /\ remote \in Remotes
    /\ fetched = NoRegistry
    /\ page = [x \in Ids |-> NoPage]
    /\ database = [x \in Ids |-> NoDatabase]
    /\ stack = [t \in Threads |->
                  IF t = Main
                  THEN <<Frame("get_from_notion", remote.root, "", "startup")>>
                  ELSE <<>>]
    /\ ret = [t \in Threads |-> NoRet]
    /\ tstate = [t \in Threads |-> IF t = Main THEN "running" ELSE "unused"]
    /\ completion = <<>>
    /\ requests = [k \in RequestKeys |-> 0]
    /\ past_claim = [x \in Ids |-> 0]
    /\ rejects = [x \in Ids |-> 0]
    /\ wasted = {}
    /\ notion_result = NoResultYet
    /\ run = 1
    /\ earlier_result = NoResultYet
    /\ users_from_notion = {}

Top(t) == stack[t][Len(stack[t])]

\* Thread t is running and its innermost call is fn at pc.
At(t, fn, pc) ==
    /\ tstate[t] = "running"
    /\ stack[t] # <<>>
    /\ Top(t).fn = fn
    /\ Top(t).pc = pc

\* The stack of t with its innermost frame replaced.
WithTop(t, frame) == [stack[t] EXCEPT ![Len(stack[t])] = frame]

\* The innermost call of t goes on at frame.
Goto(t, frame) ==
    /\ stack' = [stack EXCEPT ![t] = WithTop(t, frame)]
    /\ ret' = [ret EXCEPT ![t] = NoRet]
    /\ UNCHANGED <<tstate, completion>>

\* The innermost call of t calls callee and will go on at frame.
Call(t, frame, callee) ==
    /\ Len(stack[t]) < MaxDepth
    /\ stack' = [stack EXCEPT ![t] = Append(WithTop(t, frame), callee)]
    /\ ret' = [ret EXCEPT ![t] = NoRet]
    /\ UNCHANGED <<tstate, completion>>

\* The work of a future ended with outcome r (future.result() gives it).
FutureDone(t, r) ==
    /\ stack' = [stack EXCEPT ![t] = <<>>]
    /\ ret' = [ret EXCEPT ![t] = r]
    /\ tstate' = [tstate EXCEPT ![t] = "done"]
    /\ completion' = Append(completion, t)

\* The innermost call of t returns v to its caller.
Return(t, v) ==
    IF t # Main /\ Len(stack[t]) = 1
    THEN FutureDone(t, Value(v))
    ELSE /\ stack' = [stack EXCEPT ![t] = SubSeq(@, 1, Len(@) - 1)]
         /\ ret' = [ret EXCEPT ![t] = Value(v)]
         /\ UNCHANGED <<tstate, completion>>

\* The innermost call of t raises e. No frame between it and the thread's
\* outermost call has a handler: in the main thread the exception reaches the
\* try blocks of get_from_notion, in a worker it becomes the future's outcome.
Raise(t, e) ==
    IF t # Main
    THEN FutureDone(t, Exc(e))
    ELSE /\ stack' = [stack EXCEPT ![t] = <<stack[t][1]>>]
         /\ ret' = [ret EXCEPT ![t] = Exc(e)]
         /\ UNCHANGED <<tstate, completion>>

\* "notion_object.id in self._notion_object" of record_fetched_object.
AlreadyFetched_Never(id) == FALSE
AlreadyFetched(id) == id \in fetched.ids

\* A registry that keeps the latest id only.
RecordFetchedObject_Latest(ids, id) == {id}

\* "self._notion_object[notion_object.id] = notion_object" of
\* record_fetched_object: the keys of the dict afterwards.
RecordFetchedObject(ids, id) == ids \cup {id}

-----------------------------------------------------------------------------
(* notion.get_from_notion, get_page and get_subpages_or_subdatabases *)

\* startup(token, file_path): create_fetched_object() makes the registry, and
\* raises RuntimeError when one is left from an earlier run.
Startup ==
    /\ At(Main, "get_from_notion", "startup")
    /\ IF fetched.exists
       THEN /\ fetched' = fetched
            /\ stack' = [stack EXCEPT ![Main] = WithTop(Main, [Top(Main) EXCEPT !.pc = "raised"])]
            /\ ret' = [ret EXCEPT ![Main] = Exc("RuntimeError")]
            /\ UNCHANGED <<tstate, completion>>
       ELSE /\ fetched' = [exists |-> TRUE, ids |-> {}]
            /\ Goto(Main, [Top(Main) EXCEPT !.pc = "get_notion_users"])
    /\ UNCHANGED <<run, users_from_notion, earlier_result, notion_result, remote, page, database, requests, past_claim, rejects, wasted>>
    /\ UNCHANGED <<netvars, regvars, poolvars>>

\* Only a restricted directory is tolerated.
HandledByGetNotionUsers_403Only == {"Error403RestrictedResource"}

\* "except Error403RestrictedResource" and "except Exception" of
\* get_notion_users.
HandledByGetNotionUsers == Exceptions \cup {"RecursionError"}

\* networking.get_notion_users(), the last statement of startup:
\* fetch_all_users() under the two handlers, which leave returned_data None,
\* and then the names of the returned users, by id, in USERS_FROM_NOTION.
GetNotionUsers ==
    /\ At(Main, "get_from_notion", "get_notion_users")
    /\ LET got == FetchAllUsers
           out == IF RequestOutcome("users", AllUsers) # "ok"
                  THEN RequestOutcome("users", AllUsers) ELSE got.exc
           round_trips == IF RequestOutcome("users", AllUsers) # "ok" THEN 1
                          ELSE got.round_trips
       IN /\ requests' = [requests EXCEPT ![<<"users", AllUsers>>] = @ + round_trips]
          /\ IF out = "ok"
             THEN /\ users_from_notion' = users_from_notion \cup Range(got.results)
                  /\ Goto(Main, [Top(Main) EXCEPT !.pc = "get_page_with_id"])
             ELSE IF out \in HandledByGetNotionUsers
             THEN /\ users_from_notion' = users_from_notion
                  /\ Goto(Main, [Top(Main) EXCEPT !.pc = "get_page_with_id"])
             ELSE /\ users_from_notion' = users_from_notion
                  /\ stack' = [stack EXCEPT ![Main] =
                                  WithTop(Main, [Top(Main) EXCEPT !.pc = "raised"])]
                  /\ ret' = [ret EXCEPT ![Main] = Exc(out)]
                  /\ UNCHANGED <<tstate, completion>>
    /\ UNCHANGED <<run, earlier_result, notion_result, remote, fetched, page, database,
                   past_claim, rejects, wasted>>
    /\ UNCHANGED <<netvars, regvars, poolvars>>

\* page = get_page_with_id(notion_id)
CallGetPageWithId ==
    /\ At(Main, "get_from_notion", "get_page_with_id")
    /\ Call(Main, [Top(Main) EXCEPT !.pc = "page_ret"],
            Frame("fetch_page", Top(Main).id, "", "fetch"))
    /\ UNCHANGED <<run, users_from_notion, earlier_result, notion_result, remote, fetched, page, database, requests, past_claim, rejects,
                   wasted>>
    /\ UNCHANGED <<netvars, regvars, poolvars>>

\* networking.fetch_page(page_id) followed by get_page(page, parent_page): the
\* body of get_page_with_id, and of the loop over sub_page_ids in
\* get_subpages_or_subdatabases.
FetchPage(t) ==
    /\ At(t, "fetch_page", "fetch")
    /\ LET f == Top(t)
           out == RequestOutcome("page", f.id)
       IN /\ requests' = Sent("page", {f.id})
          /\ wasted' = IF f.id \in fetched.ids THEN wasted \cup {f.id} ELSE wasted
          /\ IF out = "ok"
             THEN Goto(t, Frame("get_page", f.id, f.parent, "claim"))
             ELSE Raise(t, out)
    /\ UNCHANGED <<run, users_from_notion, earlier_result, notion_result, remote, fetched, page, database, past_claim, rejects>>
    /\ UNCHANGED <<netvars, regvars, poolvars>>

\* get_page: notion_page = NotionPage(page_id);
\* "if networking.add_object_to_fetched(notion_page) is False: return None".
\* record_fetched_object runs under the registry's lock, so it is one step.
GetPageClaim(t) ==
    /\ At(t, "get_page", "claim")
    /\ LET f == Top(t)
       IN IF AlreadyFetched(f.id)
          THEN /\ rejects' = [rejects EXCEPT ![f.id] = @ + 1]
               /\ Return(t, "None")
               /\ UNCHANGED <<fetched, page, past_claim>>
          ELSE /\ fetched' = [fetched EXCEPT !.ids = RecordFetchedObject(@, f.id)]
               /\ page' = [page EXCEPT ![f.id] = NewPage]
               /\ past_claim' = [past_claim EXCEPT ![f.id] = @ + 1]
               /\ Goto(t, [f EXCEPT !.pc = "blocks"])
               /\ UNCHANGED rejects
    /\ UNCHANGED <<run, users_from_notion, earlier_result, notion_result, remote, database, requests, wasted>>
    /\ UNCHANGED <<netvars, regvars, poolvars>>

\* notion_page.set_blocks(networking.fetch_all_blocks(notion_page.id)), then
\* the parent's id and title.
GetPageBlocks(t) ==
    /\ At(t, "get_page", "blocks")
    /\ LET f == Top(t)
           got == FetchAllBlocks(f.id)
       IN /\ requests' = Sent("blocks", got.visited)
          /\ IF got.exc = "ok"
             THEN /\ page' = [page EXCEPT ![f.id].blocks = got.blocks,
                                          ![f.id].parent = f.parent,
                                          ![f.id].state = "ContentFetched"]
                  /\ Goto(t, [f EXCEPT !.pc = "special", !.idx = 1])
             ELSE /\ page' = page
                  /\ Raise(t, got.exc)
    /\ UNCHANGED <<run, users_from_notion, earlier_result, notion_result, remote, fetched, database, past_claim, rejects, wasted>>
    /\ UNCHANGED <<netvars, regvars, poolvars>>

\* Positions, from idx on, of the blocks handle_page_special_cases acts on.
SpecialBlocks(blocks, idx) ==
    {j \in idx..Len(blocks) : blocks[j].type \in {"table", "child_database", "file"}}

Min(S) == CHOOSE x \in S : \A y \in S : x <= y

\* handle_page_special_cases, at a table block:
\* table_row_blocks = networking.fetch_all_blocks(block.get('id', ''))
\* notion_page.add_tableid_and_rows(block.get('id', ''), table_row_blocks)
TableRows(t) ==
    /\ At(t, "get_page", "special")
    /\ LET f == Top(t)
           blocks == page[f.id].blocks
           todo == SpecialBlocks(blocks, f.idx)
       IN /\ todo # {}
          /\ blocks[Min(todo)].type = "table"
          /\ LET table_id == blocks[Min(todo)].id
                 got == FetchAllBlocks(table_id)
             IN /\ requests' = Sent("blocks", got.visited)
                /\ IF got.exc = "ok"
                   THEN /\ page' = [page EXCEPT ![f.id].tables_and_rows =
                                        (table_id :> got.blocks) @@ @]
                        /\ Goto(t, [f EXCEPT !.idx = Min(todo) + 1])
                   ELSE /\ page' = page
                        /\ Raise(t, got.exc)
    /\ UNCHANGED <<run, users_from_notion, earlier_result, notion_result, remote, fetched, database,
                   past_claim, rejects, wasted>>
    /\ UNCHANGED <<netvars, regvars, poolvars>>

\* handle_page_special_cases, at a child_database block:
\* database = get_database_from_notion(block_id)
EmbeddedDatabase(t) ==
    /\ At(t, "get_page", "special")
    /\ LET f == Top(t)
           blocks == page[f.id].blocks
           todo == SpecialBlocks(blocks, f.idx)
       IN /\ todo # {}
          /\ blocks[Min(todo)].type = "child_database"
          /\ Call(t, [f EXCEPT !.pc = "special_ret", !.idx = Min(todo)],
                  Frame("get_database_from_notion", blocks[Min(todo)].id, "", "claim"))
    /\ UNCHANGED <<run, users_from_notion, earlier_result, notion_result, remote, fetched, page, database, requests, past_claim, rejects,
                   wasted>>
    /\ UNCHANGED <<netvars, regvars, poolvars>>

\* An add_database that does not read its argument before appending it.
AddDatabaseRaises_Never(database_or_none) == FALSE

\* The first statement of NotionPage.add_database formats database.id into a
\* log message: None has no attribute id.
AddDatabaseRaises(database_or_none) == database_or_none = "None"

\* notion_page.add_database(database), with what get_database_from_notion
\* returned: None when the collection was already claimed.
EmbeddedDatabaseReturn(t) ==
    /\ At(t, "get_page", "special_ret")
    /\ LET f == Top(t)
       IN IF AddDatabaseRaises(ret[t].val)
          THEN /\ page' = page
               /\ Raise(t, "AttributeError")
          ELSE /\ page' = [page EXCEPT ![f.id].databases = Append(@, ret[t].val)]
               /\ Goto(t, [f EXCEPT !.pc = "special", !.idx = f.idx + 1])
    /\ UNCHANGED <<run, users_from_notion, earlier_result, notion_result, remote, fetched, database, requests, past_claim,
                   rejects, wasted>>
    /\ UNCHANGED <<netvars, regvars, poolvars>>

\* "except RuntimeError as exc" of handle_attachments.
HandledByAttachments == {"RuntimeError"}

\* handle_page_special_cases, at a block with a Notion-hosted file:
\* handle_attachments(notion_page, block_type, url, filename), which calls
\* networking.download_file_and_save(url, filename); a RuntimeError is added
\* to the errors of the page, any other exception is not handled, and a
\* download that returned is stored by notion_page.add_attachment, by URL.
Attachment(t) ==
    /\ At(t, "get_page", "special")
    /\ LET f == Top(t)
           blocks == page[f.id].blocks
           todo == SpecialBlocks(blocks, f.idx)
       IN /\ todo # {}
          /\ blocks[Min(todo)].type = "file"
          /\ LET url == blocks[Min(todo)].url
                 out == RequestOutcome("download", url)
                 next == [f EXCEPT !.idx = Min(todo) + 1]
             IN /\ requests' = Sent("download", {url})
                /\ IF out = "ok"
                   THEN /\ page' = [page EXCEPT ![f.id].attachments = @ \cup {url}]
                        /\ Goto(t, next)
                   ELSE IF out \in HandledByAttachments
                   THEN /\ page' = [page EXCEPT ![f.id].errors = Append(@, url)]
                        /\ Goto(t, next)
                   ELSE /\ page' = page
                        /\ Raise(t, out)
    /\ UNCHANGED <<run, users_from_notion, earlier_result, notion_result, remote, fetched, database,
                   past_claim, rejects, wasted>>
    /\ UNCHANGED <<netvars, regvars, poolvars>>

\* The end of handle_page_special_cases, and htmltools.convert_page_to_html:
\* the rendering collaborator, which is outside this model and taken to return.
SpecialCasesDone(t) ==
    /\ At(t, "get_page", "special")
    /\ LET f == Top(t)
       IN /\ SpecialBlocks(page[f.id].blocks, f.idx) = {}
          /\ page' = [page EXCEPT ![f.id].state = "SpecialCasesResolved"]
          /\ Goto(t, [f EXCEPT !.pc = "sub_pages", !.idx = 1])
    /\ UNCHANGED <<run, users_from_notion, earlier_result, notion_result, remote, fetched, database, requests, past_claim, rejects, wasted>>
    /\ UNCHANGED <<netvars, regvars, poolvars>>

\* get_subpages_or_subdatabases, "for subpageid in sub_page_ids":
\* subpage = networking.fetch_page(subpageid); get_page(subpage, notion_page)
SubPage(t) ==
    /\ At(t, "get_page", "sub_pages")
    /\ LET f == Top(t)
           sub_page_ids == SubPageIds(page[f.id].blocks)
       IN IF f.idx <= Len(sub_page_ids)
          THEN Call(t, [f EXCEPT !.pc = "sub_page_ret"],
                    Frame("fetch_page", sub_page_ids[f.idx], f.id, "fetch"))
          ELSE Goto(t, [f EXCEPT !.pc = "sub_dbs", !.idx = 1])
    /\ UNCHANGED <<run, users_from_notion, earlier_result, notion_result, remote, fetched, page, database, requests, past_claim, rejects,
                   wasted>>
    /\ UNCHANGED <<netvars, regvars, poolvars>>

\* "if fetched_sub_page: sub_pages_or_sub_databases.append(fetched_sub_page)"
SubPageReturn(t) ==
    /\ At(t, "get_page", "sub_page_ret")
    /\ LET f == Top(t)
           found == IF ret[t].val = "None" THEN <<>>
                    ELSE <<[kind |-> "page", id |-> ret[t].val]>>
       IN Goto(t, [f EXCEPT !.pc = "sub_pages", !.idx = f.idx + 1,
                            !.acc = f.acc \o found])
    /\ UNCHANGED <<run, users_from_notion, earlier_result, notion_result, remote, fetched, page, database, requests, past_claim, rejects,
                   wasted>>
    /\ UNCHANGED <<netvars, regvars, poolvars>>

\* "for sub_db_id in sub_database_ids: db = get_database_from_notion(sub_db_id)"
SubDatabase(t) ==
    /\ At(t, "get_page", "sub_dbs")
    /\ LET f == Top(t)
           sub_database_ids == SubDatabaseIds(page[f.id].blocks)
       IN /\ f.idx <= Len(sub_database_ids)
          /\ Call(t, [f EXCEPT !.pc = "sub_db_ret"],
                  Frame("get_database_from_notion", sub_database_ids[f.idx], "", "claim"))
    /\ UNCHANGED <<run, users_from_notion, earlier_result, notion_result, remote, fetched, page, database, requests, past_claim, rejects,
                   wasted>>
    /\ UNCHANGED <<netvars, regvars, poolvars>>

\* "if db: sub_pages_or_sub_databases.append(db)"
SubDatabaseReturn(t) ==
    /\ At(t, "get_page", "sub_db_ret")
    /\ LET f == Top(t)
           found == IF ret[t].val = "None" THEN <<>>
                    ELSE <<[kind |-> "database", id |-> ret[t].val]>>
       IN Goto(t, [f EXCEPT !.pc = "sub_dbs", !.idx = f.idx + 1,
                            !.acc = f.acc \o found])
    /\ UNCHANGED <<run, users_from_notion, earlier_result, notion_result, remote, fetched, page, database, requests, past_claim, rejects,
                   wasted>>
    /\ UNCHANGED <<netvars, regvars, poolvars>>

\* The ids of the items of one kind in sub_pages_or_sub_databases.
ItemIds(items, kind) ==
    LET hits == SelectSeq(items, LAMBDA item : item.kind = kind)
    IN [j \in 1..Len(hits) |-> hits[j].id]

\* The end of get_page: add_subpage / add_database for every item found, and
\* "return notion_page".
FinishPage(t) ==
    /\ At(t, "get_page", "sub_dbs")
    /\ LET f == Top(t)
       IN /\ f.idx > Len(SubDatabaseIds(page[f.id].blocks))
          /\ page' = [page EXCEPT
                ![f.id].subpages = @ \o ItemIds(f.acc, "page"),
                ![f.id].databases = @ \o ItemIds(f.acc, "database"),
                ![f.id].state = "Done"]
          /\ Return(t, f.id)
    /\ UNCHANGED <<run, users_from_notion, earlier_result, notion_result, remote, fetched, database, requests, past_claim, rejects, wasted>>
    /\ UNCHANGED <<netvars, regvars, poolvars>>

-----------------------------------------------------------------------------
(* notion.get_database_from_notion and get_pages_concurrently *)

\* database = NotionDatabase(database_id);
\* "if networking.add_object_to_fetched(database) is False: return None"
GetDatabaseClaim(t) ==
    /\ At(t, "get_database_from_notion", "claim")
    /\ LET f == Top(t)
       IN IF AlreadyFetched(f.id)
          THEN /\ rejects' = [rejects EXCEPT ![f.id] = @ + 1]
               /\ Return(t, "None")
               /\ UNCHANGED <<fetched, database, past_claim>>
          ELSE /\ fetched' = [fetched EXCEPT !.ids = RecordFetchedObject(@, f.id)]
               /\ database' = [database EXCEPT ![f.id] = NewDatabase]
               /\ past_claim' = [past_claim EXCEPT ![f.id] = @ + 1]
               /\ Goto(t, [f EXCEPT !.pc = "info"])
               /\ UNCHANGED rejects
    /\ UNCHANGED <<run, users_from_notion, earlier_result, notion_result, remote, page, requests, wasted>>
    /\ UNCHANGED <<netvars, regvars, poolvars>>

\* database_info = networking.fetch_database_info(database_id)
FetchDatabaseInfo(t) ==
    /\ At(t, "get_database_from_notion", "info")
    /\ LET f == Top(t)
           out == RequestOutcome("db_info", f.id)
       IN /\ requests' = Sent("db_info", {f.id})
          /\ IF out = "ok"
             THEN /\ database' = [database EXCEPT ![f.id].state = "SchemaFetched"]
                  /\ Goto(t, [f EXCEPT !.pc = "query"])
             ELSE /\ database' = database
                  /\ Raise(t, out)
    /\ UNCHANGED <<run, users_from_notion, earlier_result, notion_result, remote, fetched, page, past_claim, rejects, wasted>>
    /\ UNCHANGED <<netvars, regvars, poolvars>>

\* pages_in_db = networking.fetch_pages_info_from_database(database_id): one
\* query per result page, following next_cursor while has_more.
FetchDatabasePages(t) ==
    /\ At(t, "get_database_from_notion", "query")
    /\ LET f == Top(t)
           out == RequestOutcome("db_query", f.id)
           queries == IF out = "ok"
                      THEN FetchPagesInfoFrom(f.id, NoCursor).round_trips ELSE 1
       IN /\ requests' = [requests EXCEPT ![<<"db_query", f.id>>] = @ + queries]
          /\ IF out = "ok"
             THEN /\ database' = [database EXCEPT ![f.id].state = "ItemsListed"]
                  /\ Goto(t, [f EXCEPT !.pc = "submit"])
             ELSE /\ database' = database
                  /\ Raise(t, out)
    /\ UNCHANGED <<run, users_from_notion, earlier_result, notion_result, remote, fetched, page, past_claim, rejects, wasted>>
    /\ UNCHANGED <<netvars, regvars, poolvars>>

\* The futures of the pool that get_pages_concurrently makes for a database.
PoolOf(database_id, n) == {u \in Futures : u[1] = database_id /\ u[2] <= n}

\* get_pages_concurrently(pages_in_db):
\* ThreadPoolExecutor(max_workers=min(50, len(pages_in_db))), which raises
\* ValueError for no workers, and executor.submit(get_page, page) for each page.
SubmitPages(t) ==
    /\ At(t, "get_database_from_notion", "submit")
    /\ LET f == Top(t)
           pages_in_db == FetchPagesInfo(f.id)
           pool == PoolOf(f.id, Len(pages_in_db))
       IN IF Len(pages_in_db) = 0
          THEN Raise(t, "ValueError")
          ELSE /\ Len(pages_in_db) <= MaxItems
               /\ \A u \in pool : tstate[u] = "unused"
               /\ stack' = [u \in Threads |->
                              IF u = t THEN WithTop(t, [f EXCEPT !.pc = "collect"])
                              ELSE IF u \in pool
                                   THEN <<Frame("get_page", pages_in_db[u[2]], "", "claim")>>
                                   ELSE stack[u]]
               /\ tstate' = [u \in Threads |->
                               IF u \in pool THEN "running" ELSE tstate[u]]
               /\ UNCHANGED <<ret, completion>>
    /\ UNCHANGED <<run, users_from_notion, earlier_result, notion_result, remote, fetched, page, database, requests, past_claim, rejects,
                   wasted>>
    /\ UNCHANGED <<netvars, regvars, poolvars>>

\* The pages that "for future in concurrent.futures.as_completed(futures)"
\* keeps: the result of each future in completion order, an exception logged
\* and dropped, None dropped.
CompletedPages_KeepsFailed(database_id) ==
    LET done == SelectSeq(completion, LAMBDA u : u[1] = database_id)
        kept == SelectSeq(done, LAMBDA u : ret[u].val # "None")
    IN [j \in 1..Len(kept) |->
          IF ret[kept[j]].kind = "exc" THEN FetchPagesInfo(database_id)[kept[j][2]]
          ELSE ret[kept[j]].val]
CompletedPages(database_id) ==
    LET done == SelectSeq(completion, LAMBDA u : u[1] = database_id)
        kept == SelectSeq(done, LAMBDA u : ret[u].kind = "value" /\ ret[u].val # "None")
    IN [j \in 1..Len(kept) |-> ret[kept[j]].val]

\* The end of get_pages_concurrently once every future has completed (the exit
\* of the "with" block), the removal of duplicates, database.add_pages(pages)
\* and "return database".
CollectPages(t) ==
    /\ At(t, "get_database_from_notion", "collect")
    /\ LET f == Top(t)
           pool == PoolOf(f.id, Len(FetchPagesInfo(f.id)))
           unique_pages == Deduplicate(CompletedPages(f.id))
       IN /\ \A u \in pool : tstate[u] = "done"
          /\ database' = [database EXCEPT
                ![f.id].top_level_pages = unique_pages,
                ![f.id].all_pages = FlattenNotionPageTree(unique_pages),
                ![f.id].state = "Done"]
          /\ Return(t, f.id)
    /\ UNCHANGED <<run, users_from_notion, earlier_result, notion_result, remote, fetched, page, requests, past_claim, rejects, wasted>>
    /\ UNCHANGED <<netvars, regvars, poolvars>>

-----------------------------------------------------------------------------
(* The try blocks and the end of notion.get_from_notion *)

\* The exception, if any, that leaves a try block of get_from_notion, which
\* catches networking.Error404NotFound only.
Uncaught(r) == r.kind = "exc" /\ r.val # "Error404NotFound"

\* What the try block leaves in its variable ("page = None" in the handler).
Caught(r, kind) ==
    IF r.kind = "value" /\ r.val # "None" THEN <<[kind |-> kind, id |-> r.val]>>
    ELSE <<>>

\* After "page = get_page_with_id(notion_id)":
\* database = get_database_from_notion(notion_id)
PageReturn ==
    /\ At(Main, "get_from_notion", "page_ret")
    /\ LET f == Top(Main)
       IN IF Uncaught(ret[Main])
          THEN /\ stack' = [stack EXCEPT ![Main] = WithTop(Main, [f EXCEPT !.pc = "raised"])]
               /\ UNCHANGED <<ret, tstate, completion>>
          ELSE Call(Main, [f EXCEPT !.pc = "db_ret", !.acc = Caught(ret[Main], "page")],
                    Frame("get_database_from_notion", f.id, "", "claim"))
    /\ UNCHANGED <<run, users_from_notion, earlier_result, notion_result, remote, fetched, page, database, requests, past_claim, rejects,
                   wasted>>
    /\ UNCHANGED <<netvars, regvars, poolvars>>

\* After "database = get_database_from_notion(notion_id)".
DatabaseReturn ==
    /\ At(Main, "get_from_notion", "db_ret")
    /\ LET f == Top(Main)
       IN IF Uncaught(ret[Main])
          THEN /\ stack' = [stack EXCEPT ![Main] = WithTop(Main, [f EXCEPT !.pc = "raised"])]
               /\ UNCHANGED <<ret, tstate, completion>>
          ELSE Goto(Main, [f EXCEPT !.pc = "teardown",
                                    !.acc = f.acc \o Caught(ret[Main], "database")])
    /\ UNCHANGED <<run, users_from_notion, earlier_result, notion_result, remote, fetched, page, database, requests, past_claim, rejects,
                   wasted>>
    /\ UNCHANGED <<netvars, regvars, poolvars>>

\* teardown(): networking.clear_fetched_objects().
Teardown ==
    /\ At(Main, "get_from_notion", "teardown")
    /\ fetched' = NoRegistry
    /\ users_from_notion' = {}
    /\ Goto(Main, [Top(Main) EXCEPT !.pc = "result"])
    /\ UNCHANGED <<run, earlier_result, notion_result, remote, page, database, requests, past_claim,
                   rejects, wasted>>
    /\ UNCHANGED <<netvars, regvars, poolvars>>

\* The databases of the given pages, as "for page in
\* list(self._all_pages.values())" meets them.
RECURSIVE DatabasesOf(_)
DatabasesOf(ids) ==
    IF ids = {} THEN <<>>
    ELSE LET x == CHOOSE y \in ids : TRUE
         IN page[x].databases \o DatabasesOf(ids \ {x})

RECURSIVE AddPage(_, _), AddDatabase(_, _), AddDatabases(_, _), AddPages(_, _)

\* NotionResult._add_page(page)
AddPage(res, p) ==
    IF p \in res.pages THEN res
    ELSE CHOOSE after \in
            {AddDatabases(with_page, DatabasesOf(with_page.pages)) : with_page \in
                {[res EXCEPT !.pages = @ \cup {p}
                               \cup Range(FlattenNotionPageTree(<<p>>))]}} : TRUE

\* NotionResult._add_database(database)
AddDatabase(res, d) ==
    AddPages([res EXCEPT !.databases = @ \cup {d}], database[d].all_pages)

\* "for database in ...: self._add_database(database)"
AddDatabases(res, dbs) ==
    IF dbs = <<>> THEN res
    ELSE AddDatabases(AddDatabase(res, Head(dbs)), Tail(dbs))

\* "for page in database.get_all_pages(): self._add_page(page)"
AddPages(res, ps) ==
    IF ps = <<>> THEN res
    ELSE AddPages(AddPage(res, Head(ps)), Tail(ps))

\* The end of get_from_notion: "if page: result._add_page(page)" and the
\* databases of the page, "if database: result._add_database(database)", and
\* "return result".
BuildResult ==
    /\ At(Main, "get_from_notion", "result")
    /\ LET found == Top(Main).acc
           pages == ItemIds(found, "page")
           databases == ItemIds(found, "database")
           with_page == IF pages = <<>> THEN NewResult
                        ELSE AddDatabases(AddPage(NewResult, pages[1]),
                                          page[pages[1]].databases)
           with_database == IF databases = <<>> THEN with_page
                            ELSE AddDatabase(with_page, databases[1])
       IN notion_result' = [pages |-> with_database.pages,
                            databases |-> with_database.databases,
                            errors |-> with_database.errors,
                            returned |-> TRUE]
    /\ Goto(Main, [Top(Main) EXCEPT !.pc = "returned"])
    /\ UNCHANGED <<run, users_from_notion, earlier_result, remote, fetched, page, database, requests,
                   past_claim, rejects, wasted>>
    /\ UNCHANGED <<netvars, regvars, poolvars>>

RunEnded == Top(Main).pc \in {"returned", "raised"}

\* The caller calls get_from_notion once more with the same id, in the same
\* process: the module globals (the registry among them) are what the call
\* before left, the pages, databases and result are new objects.
CallAgain ==
    /\ RunEnded
    /\ run < MaxRuns
    /\ run' = run + 1
    /\ earlier_result' = notion_result
    /\ notion_result' = NoResultYet
    /\ page' = [x \in Ids |-> NoPage]
    /\ database' = [x \in Ids |-> NoDatabase]
    /\ stack' = [t \in Threads |->
                   IF t = Main
                   THEN <<Frame("get_from_notion", remote.root, "", "startup")>>
                   ELSE <<>>]
    /\ ret' = [t \in Threads |-> NoRet]
    /\ tstate' = [t \in Threads |-> IF t = Main THEN "running" ELSE "unused"]
    /\ completion' = <<>>
    /\ requests' = [k \in RequestKeys |-> 0]
    /\ past_claim' = [x \in Ids |-> 0]
    /\ rejects' = [x \in Ids |-> 0]
    /\ wasted' = {}
    /\ UNCHANGED <<remote, fetched, users_from_notion>>
    /\ UNCHANGED <<netvars, regvars, poolvars>>

RunNext ==
    \/ Startup
    \/ GetNotionUsers
    \/ CallGetPageWithId
    \/ PageReturn
    \/ DatabaseReturn
    \/ Teardown
    \/ BuildResult
    \/ CallAgain
    \/ \E t \in Threads :
          \/ FetchPage(t)
          \/ GetPageClaim(t)
          \/ GetPageBlocks(t)
          \/ TableRows(t)
          \/ EmbeddedDatabase(t)
          \/ EmbeddedDatabaseReturn(t)
          \/ Attachment(t)
          \/ SpecialCasesDone(t)
          \/ SubPage(t)
          \/ SubPageReturn(t)
          \/ SubDatabase(t)
          \/ SubDatabaseReturn(t)
          \/ FinishPage(t)
          \/ GetDatabaseClaim(t)
          \/ FetchDatabaseInfo(t)
          \/ FetchDatabasePages(t)
          \/ SubmitPages(t)
          \/ CollectPages(t)

\* No run of get_from_notion is in progress.
PoolIdle ==
    /\ number_of_pages = [p \in Pools |-> 0]
    /\ executor = [p \in Pools |-> "returned"]
    /\ max_workers = [p \in Pools |-> 0]
    /\ queued = [p \in Pools |-> 0]
    /\ working = [p \in Pools |-> 0]
    /\ finished = [p \in Pools |-> 0]

RunIdle ==
    /\ remote = CHOOSE r \in Remotes : TRUE
    /\ fetched = NoRegistry
    /\ page = [x \in Ids |-> NoPage]
    /\ database = [x \in Ids |-> NoDatabase]
    /\ stack = [t \in Threads |-> <<>>]
    /\ ret = [t \in Threads |-> NoRet]
    /\ tstate = [t \in Threads |-> "unused"]
    /\ completion = <<>>
    /\ requests = [k \in RequestKeys |-> 0]
    /\ past_claim = [x \in Ids |-> 0]
    /\ rejects = [x \in Ids |-> 0]
    /\ wasted = {}
    /\ notion_result = NoResultYet
    /\ run = 1
    /\ earlier_result = NoResultYet
    /\ users_from_notion = {}

-----------------------------------------------------------------------------
(* Specifications *)

vars == <<netvars, regvars, runvars, poolvars>>

NetIdle ==
    /\ method = "get" /\ file_download = FALSE /\ token_set = TRUE
    /\ npc = "idle" /\ i = Retries /\ outcome = NoOutcome /\ attempts = 0
    /\ sent = 0 /\ hist = <<>> /\ slept = 0 /\ total_slept = 0
    /\ result = NoResult

RegIdle ==
    /\ lock_holder = NoTask
    /\ notion_object = {}
    /\ tpc = [t \in Tasks |-> "idle"]
    /\ targ = [t \in Tasks |-> 1]
    /\ tret = [t \in Tasks |-> "pending"]

InitNet == NetInit /\ RegIdle /\ RunIdle /\ PoolIdle

SpecNet == InitNet /\ [][NetNext]_vars

InitReg == RegInit /\ NetIdle /\ RunIdle /\ PoolIdle

SpecReg == InitReg /\ [][RegNext]_vars

Init == RunInit /\ NetIdle /\ RegIdle /\ PoolIdle

Next == RunNext

InitPool == PoolInit /\ NetIdle /\ RegIdle /\ RunIdle

SpecPool == InitPool /\ [][PoolNext]_vars

Spec == Init /\ [][Next]_vars

\* Every thread that can take a step is scheduled: the main thread runs, and
\* the executor starts one worker for each submitted page.
FairSpec == Spec /\ WF_vars(Next)

-----------------------------------------------------------------------------
(* Properties of FetchedObject.record_fetched_object (SpecReg) *)

Callers(x) == {t \in Tasks : targ[t] = x}
ReturnedTrue(x) == {t \in Callers(x) : tret[t] = "True"}
ReturnedFalse(x) == {t \in Callers(x) : tret[t] = "False"}

\* C1: for every id X, of the N tasks that concurrently call
\* record_fetched_object with an object whose id is X, never more than one has
\* returned True, and once all N calls have ended exactly one returned True
\* and the other N-1 returned False.
C1_ExactlyOneClaimWins ==
    \A x \in ObjectIds :
        /\ Cardinality(ReturnedTrue(x)) <= 1
        /\ (Callers(x) # {} /\ \A t \in Callers(x) : tpc[t] = "done") =>
              /\ Cardinality(ReturnedTrue(x)) = 1
              /\ Cardinality(ReturnedFalse(x)) = Cardinality(Callers(x)) - 1

\* Every task passed the same id and every call has ended.
C1_Witness ==
    /\ \A t \in Tasks : targ[t] = 1 /\ tpc[t] = "done"
    /\ Cardinality(ReturnedFalse(1)) = NTasks - 1

-----------------------------------------------------------------------------
(* Properties of one run of get_from_notion (Spec, FairSpec) *)

\* The result pages the query of a collection has (at least the first).
QueryPages(id) == IF Len(remote.items[id]) = 0 THEN 1 ELSE Len(remote.items[id])

\* C2: in every interleaving of the pool workers and the recursive expansions
\* of one run, at most one call of get_page or get_database_from_notion gets
\* past the claim for an id, so the block-children fetch of a page id is
\* requested at most once, and so are the schema fetch and each result page of
\* the query of a collection id.
C2_OneExpansionPerId ==
    \A id \in Ids :
        /\ past_claim[id] <= 1
        /\ requests[<<"blocks", id>>] <= 1
        /\ requests[<<"db_info", id>>] <= 1
        /\ requests[<<"db_query", id>>] <= QueryPages(id)

\* A pool worker and a mention both went for page b, and the run is over: one
\* got past the claim and fetched the blocks, the other was turned away. The
\* collection that holds them was fetched once while its pool ran.
C2_Witness ==
    /\ RunEnded
    /\ remote.root = "d"
    /\ past_claim["b"] = 1 /\ rejects["b"] >= 1
    /\ requests[<<"blocks", "b">>] = 1
    /\ requests[<<"db_info", "d">>] = 1 /\ requests[<<"db_query", "d">>] = 2

\* C3: for each of the finite graphs of pages and collections, cycles and
\* self-mentions included, with every network call returning (a result or an
\* exception), the expansion started by every call of get_from_notion
\* eventually ends: the call returns or raises.
C3_ExpansionEnds == []<>RunEnded

\* The run over the cyclic page graph has returned after the self-mention of
\* the root and the mention back from page b were both turned away.
C3_Witness ==
    /\ Top(Main).pc = "returned"
    /\ remote.root = "a" /\ remote.dbs = {}
    /\ rejects["a"] >= 2
    /\ page["b"].state = "Done"

-----------------------------------------------------------------------------
(* Failures inside one run of get_from_notion (Spec) *)

\* The pool of a collection, once get_pages_concurrently has submitted it.
Submitted(d) == {u \in PoolOf(d, Len(FetchPagesInfo(d))) : tstate[u] # "unused"}

\* Some call of get_database_from_notion for d waits for the pool.
Collecting(d) ==
    \E t \in Threads : \E k \in 1..Len(stack[t]) :
        /\ stack[t][k].fn = "get_database_from_notion"
        /\ stack[t][k].id = d
        /\ stack[t][k].pc = "collect"

NotFoundTargets(P) ==
    {x \in Range(SubPageIds(page[P].blocks)) :
        RequestOutcome("page", x) = "Error404NotFound" /\ requests[<<"page", x>>] >= 1}

\* The expansion of page P got as far as handle_page_special_cases.
ReachedSpecialCases(P) ==
    page[P].state \in {"ContentFetched", "SpecialCasesResolved", "Done"}

\* The expansion of page P got as far as its sub page candidates.
ReachedSubPages(P) == page[P].state \in {"SpecialCasesResolved", "Done"}

RootResolves ==
    \/ RequestOutcome("page", remote.root) = "ok"
    \/ RequestOutcome("db_info", remote.root) = "ok"

\* C15 as stated: when the root id resolves neither as a page nor as a
\* collection (both root fetches answer NotFound), get_from_notion ends by
\* raising a terminal error rather than returning a result.
C15_UnresolvedRootRaises ==
    (/\ RunEnded
     /\ RequestOutcome("page", remote.root) = "Error404NotFound"
     /\ RequestOutcome("db_info", remote.root) = "Error404NotFound") =>
        /\ Top(Main).pc = "raised"
        /\ ~notion_result.returned

\* Some request fails for good, and every such request is for an entity other
\* than the root.
SecondaryFailuresOnly ==
    /\ remote.fail # {}
    /\ \A f \in remote.fail : f.id # remote.root

\* C16 as stated: when the root id resolves as a page or as a collection,
\* get_from_notion returns a result and does not raise, whatever NotFound,
\* Forbidden or retries-exhausted failures occur on secondary entities.
C16_SecondaryFailuresTolerated ==
    (RunEnded /\ RootResolves /\ SecondaryFailuresOnly) =>
        /\ Top(Main).pc = "returned"
        /\ notion_result.returned

Count(seq, x) == Cardinality({j \in 1..Len(seq) : seq[j] = x})

\* The run is on the root collection d of three items a, b, c, where a
\* mentions its sibling b, and no request fails.
SiblingMentionRun ==
    /\ remote.root = "d"
    /\ FetchPagesInfo("d") = <<"a", "b", "c">>
    /\ SubPageIds(remote.children["a"]) = <<"b">>
    /\ remote.fail = {}

-----------------------------------------------------------------------------
(* Attachments (Spec) *)

\* The number of blocks of a page with a file at url.
FileBlocks(P, url) ==
    Cardinality({j \in 1..Len(page[P].blocks) :
                    page[P].blocks[j].type = "file" /\ page[P].blocks[j].url = url})

\* C19 as stated: two attachment-bearing blocks on one page that reference
\* the same source URL cause exactly one download and leave exactly one
\* Attachment in the attachment map of the page.
C19_OneDownloadPerUrl ==
    \A P \in Ids : \A url \in Urls :
        (page[P].state = "Done" /\ FileBlocks(P, url) = 2
            /\ RequestOutcome("download", url) = "ok") =>
            /\ requests[<<"download", url>>] = 1
            /\ url \in page[P].attachments

\* The expansion of page P asked for the download of url, which failed.
DownloadFailed(P, url) ==
    /\ ReachedSpecialCases(P)
    /\ FileBlocks(P, url) >= 1
    /\ requests[<<"download", url>>] >= 1
    /\ RequestOutcome("download", url) # "ok"

\* C20 as stated: whenever the download of an attachment of a page fails, in
\* any way the retry layer can fail, the failure is caught inside the
\* expansion of the page: an entry is added to the error log of the page, no
\* Attachment is stored for the URL, and the expansion goes on to Done.
C20_DownloadFailureRecorded ==
    \A P \in Ids : \A url \in Urls :
        DownloadFailed(P, url) =>
            /\ url \in Range(page[P].errors)
            /\ url \notin page[P].attachments
            /\ RunEnded => page[P].state = "Done"

-----------------------------------------------------------------------------
(* Pagination (Spec) *)

\* The databases whose query has been answered in this run.
Listed(d) == database[d].state \in {"ItemsListed", "Done"}

\* C21: fetch_pages_info_from_database returns the concatenation, in server
\* order, of the results of every result page of the query: it follows
\* next_cursor while has_more is set, stops at the first result page without
\* has_more, and sends one query per result page, so the number of items is
\* the sum of the result pages' counts.
C21_QueryFollowsPagination ==
    \A d \in remote.dbs :
        Listed(d) =>
            /\ FetchPagesInfo(d) = Concat(remote.items[d])
            /\ requests[<<"db_query", d>>] = Len(remote.items[d])

C21_Witness ==
    /\ Listed("d")
    /\ Len(remote.items["d"]) = 2
    /\ requests[<<"db_query", "d">>] = 2
    /\ Len(FetchPagesInfo("d")) = 3

\* The pages whose block list has been fetched in this run.
BlocksFetched(P) == page[P].state \notin {"Unclaimed", "Claimed"}

\* The blocks of every result page of the block-children listing of a parent,
\* in server order.
AllResultPages(parent_id) == remote.children[parent_id] \o remote.more[parent_id]

\* C22: for a page whose block-children listing spans several result pages
\* (has_more set on the first), the page's ordered block list contains every
\* block of every result page.
C22_BlockListSpansResultPages ==
    \A P \in Ids :
        BlocksFetched(P) =>
            \A j \in 1..Len(AllResultPages(P)) :
                AllResultPages(P)[j] \in Range(page[P].blocks)

-----------------------------------------------------------------------------
(* Tables (Spec) *)

\* C23: for every page, the row blocks of a table block are reachable only
\* through the table-id side map (tables_and_rows): no table_row block is in
\* the page's normal ordered block list.
C23_RowsOnlyInSideMap ==
    \A P \in Ids :
        \A j \in 1..Len(page[P].blocks) : page[P].blocks[j].type # "table_row"

-----------------------------------------------------------------------------
(* The registry over the run (Spec) *)

\* C24: after get_from_notion ends, whether it returns or raises, the
\* run-scoped state is discarded: the claim registry no longer exists, so a
\* following call in the same process starts with an empty registry and is
\* not rejected at startup.
C24_RunStateDiscarded == RunEnded => ~fetched.exists

\* A call of get_page for P that got past the claim is on the stack of some
\* thread.
Expanding(P) ==
    \E t \in Threads : \E j \in 1..Len(stack[t]) :
        /\ stack[t][j].fn = "get_page"
        /\ stack[t][j].id = P
        /\ stack[t][j].pc \notin {"fetch", "claim"}

\* The expansion of page P got past the claim and ended in an exception.
ExpansionFailed(P) ==
    /\ past_claim[P] > 0
    /\ page[P].state \notin {"Unclaimed", "Done"}
    /\ ~Expanding(P)

\* Every id that got past the claim in this run is in the registry, at most
\* once, as long as the registry exists.
ClaimedStaysClaimed ==
    \A id \in Ids :
        (fetched.exists /\ past_claim[id] > 0) =>
            (id \in fetched.ids /\ past_claim[id] = 1)

\* No step but teardown takes an id out of the registry, and no claim gets
\* past the registry for an id that is in it.
NoRetraction ==
    /\ fetched'.exists => fetched.ids \subseteq fetched'.ids
    /\ \A id \in Ids : past_claim'[id] > past_claim[id] => id \notin fetched.ids

\* C25: within one run the set of claimed ids only grows: no operation before
\* teardown removes an id from the registry, also when the claiming task's
\* expansion raises; an id whose expansion failed stays claimed, every later
\* claim for it is rejected, and it is not expanded again in that run.
C25_ClaimsNeverRetracted == [](ClaimedStaysClaimed) /\ [][NoRetraction]_vars

C25_Witness ==
    \E P \in Ids :
        /\ ExpansionFailed(P)
        /\ P \in fetched.ids
        /\ \E t \in Threads : At(t, "get_page", "claim") /\ Top(t).id = P

-----------------------------------------------------------------------------
(* Errors in the result (Spec) *)

\* C26: every entity whose expansion failed during a run that still returns a
\* result is visible to the caller as a recorded error: the error collection
\* of the NotionResult (get_errors, get_item_for_id) holds an entry for the
\* id of each collection item or secondary page whose expansion raised.
C26_FailedExpansionsReported ==
    notion_result.returned =>
        \A P \in Ids \ {remote.root} :
            ExpansionFailed(P) => P \in notion_result.errors

-----------------------------------------------------------------------------
(* The user directory (Spec) *)

\* The user-directory fetch of this run has been made and has failed.
UsersFetchFailed ==
    /\ requests[<<"users", AllUsers>>] > 0
    /\ RequestOutcome("users", AllUsers) # "ok"

\* get_notion_users returns to startup, and get_from_notion goes on with the
\* expansion of the root id.
UsersFetchReturns ==
    At(Main, "get_from_notion", "get_notion_users") =>
        stack'[Main][1].pc = "get_page_with_id"

\* C27: a Forbidden answer, or any other failure, of the user-directory fetch
\* at startup never aborts the run: get_notion_users returns normally, the
\* user map stays empty, and page and collection expansion proceeds.
C27_UsersFailureTolerated ==
    [](UsersFetchFailed => users_from_notion = {}) /\ [][UsersFetchReturns]_vars

C27_Witness ==
    /\ RequestOutcome("users", AllUsers) = "Error403RestrictedResource"
    /\ requests[<<"users", AllUsers>>] = 1
    /\ users_from_notion = {}
    /\ remote.root \in remote.pages
    /\ page[remote.root].state = "Done"
    /\ Cardinality(remote.pages) > 1

-----------------------------------------------------------------------------
(* The block list of a page (Spec) *)

RECURSIVE PreOrder(_)

\* The blocks listed for a parent in depth-first pre-order: every block,
\* followed by the pre-order of its own listing when it has children and is
\* not a nested page.
PreOrder(parent_id) ==
    LET listed == remote.children[parent_id]
    IN Concat([j \in 1..Len(listed) |->
                 IF listed[j].has_children /\ listed[j].type # "child_page"
                 THEN <<listed[j]>> \o PreOrder(listed[j].id)
                 ELSE <<listed[j]>>])

\* The ids of the nested-page blocks in a list of blocks.
ChildPageIds(blocks) ==
    {blocks[j].id : j \in {k \in 1..Len(blocks) : blocks[k].type = "child_page"}}

\* C28: fetch_all_blocks returns the blocks in depth-first pre-order: each
\* block is followed directly by the recursively fetched list of its children
\* exactly when its has_children flag is set and its type is not child_page;
\* the children of a child_page block are not fetched under the parent page
\* and are not in the parent's block list.
C28_BlocksInPreOrder ==
    \A P \in Ids :
        BlocksFetched(P) =>
            /\ page[P].blocks = PreOrder(P)
            /\ FetchAllBlocks(P).visited \cap ChildPageIds(page[P].blocks) = {}

\* The block list of a page holds a toggle followed directly by the toggle's
\* child block and then by the block after the toggle.
C28_Witness ==
    \E P \in Ids :
        /\ BlocksFetched(P)
        /\ \E j \in 1..(Len(page[P].blocks) - 1) :
              /\ page[P].blocks[j].type = "toggle"
              /\ page[P].blocks[j + 1] = remote.children[page[P].blocks[j].id][1]
              /\ Len(page[P].blocks) > j + 1

-----------------------------------------------------------------------------
(* The order of the steps of get_page (Spec) *)

\* The state changes of a page that one step may make: the steps of get_page
\* in their order.
ExpansionOrder ==
    {<<"Unclaimed", "Claimed">>, <<"Claimed", "ContentFetched">>,
     <<"ContentFetched", "SpecialCasesResolved">>,
     <<"SpecialCasesResolved", "Done">>}

\* Page P is in a list of subpages, in the items of a database or in the
\* result.
Owned(P) ==
    \/ \E Q \in Ids : P \in Range(page[Q].subpages)
    \/ \E d \in Ids : P \in Range(database[d].top_level_pages)
                      \/ P \in Range(database[d].all_pages)
    \/ P \in notion_result.pages

\* A step changes the state of a page along ExpansionOrder only (the objects
\* of a new call of get_from_notion start over), the special cases are
\* resolved over the block list that was fetched, and the subpages and
\* subdatabases are expanded between SpecialCasesResolved and Done.
StepsInOrder ==
    \A P \in Ids :
        /\ page'[P].state # page[P].state =>
              \/ <<page[P].state, page'[P].state>> \in ExpansionOrder
              \/ run' # run /\ page'[P].state = "Unclaimed"
        /\ page[P].state \in {"ContentFetched", "SpecialCasesResolved", "Done"}
              /\ run' = run => page'[P].blocks = page[P].blocks
        /\ \A t \in Threads : \A j \in 1..Len(stack'[t]) :
              (stack'[t][j].fn = "get_page" /\ stack'[t][j].id = P
               /\ stack'[t][j].pc \in {"sub_pages", "sub_page_ret", "sub_dbs",
                                       "sub_db_ret"})
                  => page'[P].state = "SpecialCasesResolved"

\* C29: for every page the steps of its expansion occur in this order: the
\* claim succeeds, then the block list is fetched, then the special cases
\* (table rows, embedded collections, attachments) are resolved, then the
\* discovered subpages and subcollections are expanded; the page is appended
\* to an owner's list (subpages, collection items) or to the result only
\* after all of these steps have completed.
C29_ExpansionStepsInOrder ==
    [](\A P \in Ids : Owned(P) => page[P].state = "Done") /\ [][StepsInOrder]_vars

\* A page with a table or an embedded collection is in the result together
\* with a subpage of its own.
C29_Witness ==
    \E P, Q \in Ids :
        /\ P \in Range(page[Q].subpages)
        /\ Q \in notion_result.pages
        /\ P \in notion_result.pages
        /\ \E j \in 1..Len(page[Q].blocks) :
              page[Q].blocks[j].type \in {"table", "child_database", "file"}

-----------------------------------------------------------------------------
(* Mentions (Spec) *)

\* The ids of the mentions of one kind in the rich text of any block of a
\* list.
MentionedIn(blocks, kind) ==
    UNION {{text.id : text \in {x \in Range(blocks[j].rich_text) : x.kind = kind}} :
              j \in 1..Len(blocks)}

\* C30: for every block of a page that carries rich-text spans, whatever its
\* type (paragraph, heading, list item, to-do, toggle, callout, quote, table
\* row), each page-mention or collection-mention span in it contributes its
\* target id to the candidate ids expanded for that page.
C30_EveryMentionIsCandidate ==
    \A P \in Ids :
        BlocksFetched(P) =>
            /\ MentionedIn(page[P].blocks, "page")
                  \subseteq Range(SubPageIds(page[P].blocks))
            /\ MentionedIn(page[P].blocks, "database")
                  \subseteq Range(SubDatabaseIds(page[P].blocks))

-----------------------------------------------------------------------------
(* Errors of the special cases (Spec) *)

\* A block of page P embeds a collection whose schema fetch or query is
\* answered NotFound or Forbidden.
EmbeddedCollectionFails(P) ==
    \E j \in 1..Len(page[P].blocks) :
        /\ page[P].blocks[j].type = "child_database"
        /\ \E endpoint \in {"db_info", "db_query"} :
              RequestOutcome(endpoint, page[P].blocks[j].id)
                  \in {"Error404NotFound", "Error403RestrictedResource"}

\* C31: an error raised while resolving one block of a page P (fetching a
\* table's rows, expanding an embedded collection that is NotFound or
\* Forbidden, locating an attachment URL) does not propagate out of get_page
\* for P: it becomes an entry of P's error log and P's expansion continues.
C31_SpecialCaseErrorStaysInPage ==
    \A P \in Ids :
        (BlocksFetched(P) /\ EmbeddedCollectionFails(P)) => ~ExpansionFailed(P)

-----------------------------------------------------------------------------
(* Pagination of the user directory (Spec) *)

\* startup has returned and no request of the user-directory fetch failed.
UsersListed ==
    /\ At(Main, "get_from_notion", "get_page_with_id")
    /\ RequestOutcome("users", AllUsers) = "ok"

\* C32: when the user directory spans k >= 2 result pages, each follow-up
\* request of fetch_all_users carries the next_cursor of the previous answer,
\* so the fetch ends after exactly k requests and returns the concatenation
\* of the k result pages.
C32_UsersFollowPagination ==
    UsersListed =>
        /\ requests[<<"users", AllUsers>>] = Len(remote.users)
        /\ users_from_notion = Range(Concat(remote.users))

-----------------------------------------------------------------------------
(* The pools of get_pages_concurrently (SpecPool) *)

\* The smaller of two numbers.
Least(a, b) == IF a <= b THEN a ELSE b

\* The largest number of pages of pool p that may be expanded at once.
PoolBound(p) == Least(50, number_of_pages[p])

\* C33: at every moment the number of items of one collection query that are
\* being expanded concurrently by that query's pool is at most min(50, number
\* of items returned by the query), and each fan-out point uses its own pool
\* with no bound shared between pools: a pool with a submitted page and fewer
\* than its own bound at work can start the page whatever the other pool does.
C33_PoolBounded ==
    \A p \in Pools :
        /\ working[p] <= PoolBound(p)
        /\ (executor[p] = "running" /\ queued[p] > 0 /\ working[p] < PoolBound(p))
              => ENABLED StartPage(p)

\* Both pools are full: 50 of the 51 pages of the outer pool and both pages of
\* the inner pool are being expanded, more than 50 in all, and a page waits.
C33_Witness ==
    /\ number_of_pages["outer"] = ManyPages
    /\ working["outer"] = 50
    /\ queued["outer"] > 0
    /\ working["inner"] = number_of_pages["inner"]
    /\ working["inner"] > 0

-----------------------------------------------------------------------------
(* Writers of the objects (Spec) *)

\* Thread t holds a call of fn for id that got past the claim.
Holds(t, fn, id) ==
    \E j \in 1..Len(stack[t]) :
        stack[t][j].fn = fn /\ stack[t][j].id = id /\ stack[t][j].pc # "claim"

\* The step is taken by thread t inside its innermost call, which is a call
\* of fn for id, and no other thread holds such a call.
WrittenByClaimer(fn, id) ==
    \E t \in Threads :
        /\ stack'[t] # stack[t]
        /\ stack[t] # <<>>
        /\ Top(t).fn = fn
        /\ Top(t).id = id
        /\ \A u \in Threads \ {t} : ~Holds(u, fn, id)

\* Within a call of get_from_notion, a step that changes a page or a database
\* is taken by the one thread that claimed it, and the user map and the
\* result are written by the main thread.
SingleWriter ==
    run' = run =>
        /\ \A P \in Ids : page'[P] # page[P] => WrittenByClaimer("get_page", P)
        /\ \A d \in Ids : database'[d] # database[d] =>
                             WrittenByClaimer("get_database_from_notion", d)
        /\ (users_from_notion' # users_from_notion \/ notion_result' # notion_result)
              => stack'[Main] # stack[Main]

\* C34: in every interleaving, each NotionPage, NotionDatabase and Attachment
\* object is mutated only by the task that claimed (created) it, and the
\* claim registry is the only structure written by more than one concurrently
\* running worker.
C34_SingleWriter == [][SingleWriter]_vars

\* Two workers of one pool have both written the registry and each is at work
\* on the page it claimed.
C34_Witness ==
    \E t, u \in Futures :
        /\ t # u
        /\ tstate[t] = "running" /\ tstate[u] = "running"
        /\ \E P, Q \in fetched.ids :
              /\ P # Q
              /\ Holds(t, "get_page", P) /\ page[P].blocks # <<>>
              /\ Holds(u, "get_page", Q)

-----------------------------------------------------------------------------
(* Collections without items (Spec) *)

\* A call of get_database_from_notion for d is on the stack of some thread.
DatabaseExpanding(d) ==
    \E t \in Threads : \E j \in 1..Len(stack[t]) :
        stack[t][j].fn = "get_database_from_notion" /\ stack[t][j].id = d

\* C35: expanding a collection whose query returns zero items completes
\* normally: get_database_from_notion returns the collection with an empty
\* item list and an empty flat page list, and raises nothing.
C35_EmptyCollectionReturns ==
    \A d \in Ids :
        (Listed(d) /\ Len(FetchPagesInfo(d)) = 0 /\ ~DatabaseExpanding(d)) =>
            /\ database[d].state = "Done"
            /\ database[d].top_level_pages = <<>>
            /\ database[d].all_pages = <<>>

-----------------------------------------------------------------------------
(* The embedded collections of a page (Spec) *)

\* C36: in every reachable state, every element of a page's list of embedded
\* collections is a resolved NotionDatabase: when an embedded-collection block
\* names an id that was already claimed, nothing is added to the list for it,
\* never the "already present" sentinel None.
C36_OnlyResolvedDatabasesListed ==
    \A P \in Ids : \A j \in 1..Len(page[P].databases) :
        /\ page[P].databases[j] # "None"
        /\ page[P].databases[j] \in Ids
        /\ database[page[P].databases[j]].state = "Done"

\* The block of page P that embeds a collection already claimed has been
\* handled: get_database_from_notion returned None and nothing was listed.
C36_Witness ==
    \E P \in Ids : \E j \in 1..Len(page[P].blocks) :
        /\ page[P].blocks[j].type = "child_database"
        /\ page[P].blocks[j].id \in fetched.ids
        /\ rejects[page[P].blocks[j].id] > 0
        /\ page[P].databases = <<>>
        /\ ExpansionFailed(P)
        /\ \E t \in Threads : ret[t] = Exc("AttributeError")

-----------------------------------------------------------------------------
(* Owners of a page (Spec) *)

\* The places of page P in the owner lists: the subpages list of every page
\* and the top-level item list of every collection.
OwnerPlaces(P) ==
    UNION {{<<"subpages", Q, j>> :
               j \in {k \in 1..Len(page[Q].subpages) : page[Q].subpages[k] = P}} :
           Q \in Ids}
    \cup
    UNION {{<<"top_level_pages", d, j>> :
               j \in {k \in 1..Len(database[d].top_level_pages) :
                        database[d].top_level_pages[k] = P}} :
           d \in Ids}

\* C37: in every reachable state of a run, each page id occurs at most once
\* over all owner lists taken together (every page's subpages list and every
\* collection's top-level item list): no page is owned by two parents and no
\* list holds the same page twice.
C37_OneOwnerPerPage == \A P \in Ids : Cardinality(OwnerPlaces(P)) <= 1

\* The call has returned; a page that was reached from two places, one of
\* them rejected at the claim, is in one owner list.
C37_Witness ==
    /\ notion_result.returned
    /\ \E P \in Ids :
          /\ rejects[P] > 0
          /\ Cardinality(OwnerPlaces(P)) = 1
          /\ P \in notion_result.pages

-----------------------------------------------------------------------------
(* The ids of the result (Spec) *)

\* The ids that got past the claim in this call.
ClaimedIds == {id \in Ids : past_claim[id] > 0}

\* Every request sent in this call was answered without an error.
NoRequestFailed ==
    \A k \in RequestKeys : requests[k] > 0 => RequestOutcome(k[1], k[2]) = "ok"

-----------------------------------------------------------------------------
(* Properties of get_network_data (SpecNet) *)

AllOf(seq, class) == \A j \in 1..Len(seq) : seq[j] = class

Front(seq) == SubSeq(seq, 1, Len(seq) - 1)

\* The latest attempt received a response and _handle_response is done with it.
Handled == outcome.kind = "response" /\ npc # "handle"

\* C5: when the attempts of a call yield k-1 timeouts followed by a success,
\* 1 <= k <= 4, the call returns the success payload after exactly k request
\* attempts; in particular up to 3 timeouts leave the call running.
C5_TimeoutsThenSuccess ==
    /\ (Len(hist) \in 1..3 /\ AllOf(hist, "timeout")) => npc \notin Ended
    /\ (Len(hist) >= 1 /\ hist[Len(hist)] = "success" /\ AllOf(Front(hist), "timeout")) =>
          /\ Len(hist) <= 4
          /\ npc = "returned"
          /\ result = [kind |-> "return",
                       value |-> IF file_download THEN "response" ELSE "data"]
          /\ attempts = Len(hist)
          /\ sent = Len(hist)

\* Three timeouts, then the success payload on the fourth attempt.
C5_Witness ==
    /\ hist = <<"timeout", "timeout", "timeout", "success">>
    /\ npc = "returned"
    /\ result.value = "data"

\* C6: when every attempt of a call ends in a timeout, the call makes exactly
\* 4 request attempts, never a fifth, and then raises
\* RuntimeError("No more retries left!").
C6_FourTimeoutsExhaust ==
    /\ attempts <= 4
    /\ (Len(hist) >= 1 /\ AllOf(hist, "timeout")) =>
          IF Len(hist) < 4
          THEN npc \notin Ended
          ELSE /\ Len(hist) = 4
               /\ attempts = 4
               /\ sent = 4
               /\ npc = "raised"
               /\ result = [kind |-> "raise", value |-> "NoMoreRetries"]

\* Four timeouts and the call has raised.
C6_Witness ==
    /\ hist = <<"timeout", "timeout", "timeout", "timeout">>
    /\ npc = "raised"

\* C7 as stated: an attempt that receives a not-found response (404 with code
\* object_not_found) or a forbidden response (403 with code
\* restricted_resource) ends the call on that attempt with Error404NotFound or
\* Error403RestrictedResource, with no backoff sleep.
C7_TerminalNotRetried ==
    /\ (Handled /\ outcome.status = 404 /\ outcome.body = "object_not_found") =>
          /\ npc = "raised"
          /\ result = [kind |-> "raise", value |-> "Error404NotFound"]
          /\ slept = 0
    /\ (Handled /\ outcome.status = 403 /\ outcome.body = "restricted_resource") =>
          /\ npc = "raised"
          /\ result = [kind |-> "raise", value |-> "Error403RestrictedResource"]
          /\ slept = 0

\* C8 as stated: after an attempt that receives a 429 whose Retry-After header
\* is d, at least d seconds are slept before the next attempt starts, for JSON
\* requests and downloads and whatever the body holds.
C8_RateLimitWait ==
    (Handled /\ outcome.status = 429 /\ outcome.retry_after.kind = "int") =>
        slept >= outcome.retry_after.value

\* C9 as stated: after an attempt that ends in a malformed payload, a timeout
\* or another non-success status, a non-zero backoff is slept.
C9_TransientBackoff ==
    (Len(hist) >= 1 /\ npc # "handle"
        /\ hist[Len(hist)] \in {"malformed", "timeout", "bad_status"}) =>
        slept > 0

\* C10: every outcome that asks for a retry uses up one attempt of the one
\* budget of 4 (before each attempt, the attempts made and the attempts left
\* add up to 4), and a call whose attempts all end in rate-limit responses, or
\* all in invalid JSON, raises RuntimeError("No more retries left!") after 4
\* attempts.
C10_OneBudget ==
    /\ npc = "request" => (attempts = Len(hist) /\ i = 4 - Len(hist) /\ i >= 1)
    /\ (Len(hist) >= 1 /\ (AllOf(hist, "rate_limited") \/ AllOf(hist, "malformed"))) =>
          IF Len(hist) < 4
          THEN npc \notin Ended
          ELSE /\ attempts = 4
               /\ npc = "raised"
               /\ result = [kind |-> "raise", value |-> "NoMoreRetries"]

\* Four rate-limit responses and the call has raised.
C10_Witness ==
    /\ hist = <<"rate_limited", "rate_limited", "rate_limited", "rate_limited">>
    /\ npc = "raised"
    /\ total_slept >= 8


\* C11: a call whose method is neither "get" nor "post" raises
\* ValueError("Invalid method!") on its first attempt: no request is sent, no
\* backoff is slept and no second attempt is made.
C11_InvalidMethodRaises ==
    method \notin {"get", "post"} =>
        /\ sent = 0
        /\ total_slept = 0
        /\ attempts <= 1
        /\ attempts = 1 =>
              /\ npc = "raised"
              /\ result = [kind |-> "raise", value |-> "ValueError"]

\* A call with method "put" has raised on its first attempt.
C11_Witness ==
    /\ method = "put"
    /\ attempts = 1
    /\ npc = "raised"
    /\ result.value = "ValueError"

\* C12: for a download (file_download=True) the payload is never parsed as
\* JSON, whatever it holds, and the first attempt that receives a success
\* status returns the raw response object itself.
C12_DownloadReturnsResponse ==
    /\ file_download => \A j \in 1..Len(hist) : hist[j] # "malformed"
    /\ (file_download /\ Handled /\ outcome.status = 200) =>
          /\ npc = "returned"
          /\ result = [kind |-> "return", value |-> "response"]
          /\ \A j \in 1..(Len(hist) - 1) : hist[j] # "success"

\* A download whose second attempt got a success status with a body that is
\* not JSON has returned the response.
C12_Witness ==
    /\ file_download
    /\ Len(hist) = 2 /\ hist[2] = "success"
    /\ outcome.status = 200 /\ outcome.body = "invalid"
    /\ npc = "returned"
    /\ result.value = "response"

====
